---- MODULE Spec2Model ----
(***************************************************************************)
(* A model of src/src/splat-serialize.ts: the gaussian filter, the common  *)
(* property resolver, and the format drivers (serializePly,                *)
(* serializePlyCompressed, serializeSplat, serializeViewer) writing to a   *)
(* sequential Writer.                                                      *)
(*                                                                         *)
(* Numbers.  Float values are fixed point integers; where a value is a     *)
(* probability or a colour it is held in thousandths ("milli").  NaN is a  *)
(* distinguished integer outside every finite value of the model.          *)
(***************************************************************************)
EXTENDS Integers, Sequences, FiniteSets, TLC

VARIABLES
    op,                 \* which exported function the call runs
    splats,             \* the Splat[] argument
    serializeSettings,  \* the SerializeSettings argument
    options,            \* the ViewerExportSettings argument of serializeViewer
    pc,                 \* position of the async function
    error,              \* what the call's promise rejected with ("none" while it has not)
    inflight,           \* sink writes issued and not yet settled
    written,            \* buffers the sink has accepted, in acceptance order
    issued,             \* every buffer handed to writer.write, in production order
    awaited,            \* outcome of the write being awaited: "none", "ok" or the sink's error
    sinkError,          \* the first failure the sink reported ("none" if it has not)
    loc,                \* the locals of the running function
    scratch,            \* the module-level scratch objects v and q, shared by every call
    peer                \* a second call in flight, suspended or not yet begun (or none)

vars == <<op, splats, serializeSettings, options, pc, error, inflight, written, issued,
          awaited, sinkError, loc, scratch, peer>>

----------------------------------------------------------------------------
(* Bounds of the model *)

\* most splats over all collections of one call
MaxSplats == 3
\* rows the staging buffer of serializePly is sized for (the source uses 1024)
BlockRows == 2
\* gaussians per chunk of the compressed format (the source uses 256)
ChunkSize == 2

----------------------------------------------------------------------------
(* Values *)

NaN == 0 - 1000000

isFinite(v) == v # NaN

\* State.deleted (bit 0) and State.selected of splat-state.ts
State_deleted == 1
State_selected == 2

\* a & b and a ^ b on non-negative integers
RECURSIVE BitAnd(_, _)
BitAnd(a, b) == IF a = 0 \/ b = 0 THEN 0 ELSE (a % 2) * (b % 2) + 2 * BitAnd(a \div 2, b \div 2)

RECURSIVE BitXor(_, _)
BitXor(a, b) ==
    IF a = 0 THEN b ELSE IF b = 0 THEN a
    ELSE (((a % 2) + (b % 2)) % 2) + 2 * BitXor(a \div 2, b \div 2)

\* a < b as JavaScript evaluates it: false when either side is NaN
Less(a, b) == a # NaN /\ b # NaN /\ a < b

\* 1 / (1 + Math.exp(-v)), in thousandths, for v in whole units
sigmoid(v) ==
    IF v = NaN THEN NaN
    ELSE IF v <= -7 THEN 0
    ELSE IF v >= 7 THEN 1000
    ELSE CASE v = -6 -> 2 [] v = -5 -> 7 [] v = -4 -> 18 [] v = -3 -> 47
           [] v = -2 -> 119 [] v = -1 -> 269 [] v = 0 -> 500 [] v = 1 -> 731
           [] v = 2 -> 881 [] v = 3 -> 953 [] v = 4 -> 982 [] v = 5 -> 993
           [] v = 6 -> 998

----------------------------------------------------------------------------
(* Sequence helpers *)

RECURSIVE SumSeq(_)
SumSeq(s) == IF s = <<>> THEN 0 ELSE Head(s) + SumSeq(Tail(s))

RemoveAt(s, k) == SubSeq(s, 1, k - 1) \o SubSeq(s, k + 1, Len(s))

Range(s) == {s[k] : k \in DOMAIN s}

----------------------------------------------------------------------------
(* Splat collections.  A collection is                                     *)
(*   [props |-> the 'vertex' element's properties, in order, each          *)
(*              [name, type, storage],                                     *)
(*    data  |-> one record per gaussian: stored property name -> value]    *)

numSplats(splat) == Len(splat.data)

\* splatData.getElement('vertex').properties.filter(p => p.storage)
storedProps(splat) == SelectSeq(splat.props, LAMBDA p : p.storage)

getVertexProperties(splat) == {p.name : p \in Range(storedProps(splat))}

\* splatData.getProp(name)[i]; 0-based i in the source, 1-based here
getProp(splat, name, i) == splat.data[i][name]

----------------------------------------------------------------------------
(* GaussianFilter *)

onlySelected(settings) == settings.selected
minOpacity(settings) == settings.minOpacity
removeInvalid(settings) == settings.removeInvalid

\* test with the opacity check written `<=`: a gaussian exactly at the threshold
\* is dropped
testAtThreshold(settings, splat, i) ==
    IF BitAnd(getProp(splat, "state", i), State_deleted) # 0 THEN FALSE
    ELSE IF onlySelected(settings) /\ getProp(splat, "state", i) # State_selected THEN FALSE
    ELSE IF minOpacity(settings) > 0
            /\ ~Less(minOpacity(settings), sigmoid(getProp(splat, "opacity", i))) THEN FALSE
    ELSE IF removeInvalid(settings)
            /\ \E p \in Range(storedProps(splat)) : ~isFinite(getProp(splat, p.name, i)) THEN FALSE
    ELSE TRUE

\* GaussianFilter.test(i) with the filter bound to `splat` by set()
test(settings, splat, i) ==
    IF BitAnd(getProp(splat, "state", i), State_deleted) # 0 THEN FALSE
    ELSE IF onlySelected(settings) /\ getProp(splat, "state", i) # State_selected THEN FALSE
    ELSE IF minOpacity(settings) > 0
            /\ Less(sigmoid(getProp(splat, "opacity", i)), minOpacity(settings)) THEN FALSE
    ELSE IF removeInvalid(settings)
            /\ \E p \in Range(storedProps(splat)) : ~isFinite(getProp(splat, p.name, i)) THEN FALSE
    ELSE TRUE

\* the inner loop of countGaussians over one collection
RECURSIVE countFrom(_, _, _)
countFrom(settings, splat, i) ==
    IF i > numSplats(splat) THEN 0
    ELSE (IF test(settings, splat, i) THEN 1 ELSE 0) + countFrom(settings, splat, i + 1)

RECURSIVE countGaussiansFrom(_, _, _)
countGaussiansFrom(ss, settings, e) ==
    IF e > Len(ss) THEN 0
    ELSE countFrom(settings, ss[e], 1) + countGaussiansFrom(ss, settings, e + 1)

countGaussians(ss, settings) == countGaussiansFrom(ss, settings, 1)

----------------------------------------------------------------------------
(* Common-property resolver *)

RECURSIVE allStoredFrom(_, _)
allStoredFrom(ss, e) ==
    IF e > Len(ss) THEN <<>> ELSE storedProps(ss[e]) \o allStoredFrom(ss, e + 1)

\* the keys of the name->types Map, in insertion order
RECURSIVE firstOccurrences(_, _)
firstOccurrences(ps, seen) ==
    IF ps = <<>> THEN <<>>
    ELSE IF Head(ps).name \in seen THEN firstOccurrences(Tail(ps), seen)
    ELSE <<Head(ps).name>> \o firstOccurrences(Tail(ps), seen \cup {Head(ps).name})

\* result.get(name): the types the collections declare for name
typesOf(ss, name) == {p.type : p \in {q \in Range(allStoredFrom(ss, 1)) : q.name = name}}

RECURSIVE commonPropsOf(_, _)
commonPropsOf(ss, names) ==
    IF names = <<>> THEN <<>>
    ELSE (IF Cardinality(typesOf(ss, Head(names))) = 1
          THEN <<[name |-> Head(names), type |-> CHOOSE t \in typesOf(ss, Head(names)) : TRUE]>>
          ELSE <<>>) \o commonPropsOf(ss, Tail(names))

getCommonProps(ss) == commonPropsOf(ss, firstOccurrences(allStoredFrom(ss, 1), {}))

\* shNames: f_rest_0 .. f_rest_44
shNames == [k \in 1..45 |-> "f_rest_" \o ToString(k - 1)]

\* parseInt(name.slice(7), 10) for a name of shNames
shIndex(name) == (CHOOSE k \in DOMAIN shNames : shNames[k] = name) - 1

\* an absent setting
Undefined == 0 - 1

\* v ?? d
Default(v, d) == IF v = Undefined THEN d ELSE v

DataTypeSize(dataType) ==
    CASE dataType = "char" -> 1 [] dataType = "uchar" -> 1
      [] dataType = "short" -> 2 [] dataType = "ushort" -> 2
      [] dataType = "int" -> 4 [] dataType = "uint" -> 4
      [] dataType = "float" -> 4 [] dataType = "double" -> 8

shBandCoeffs == <<0, 3, 8, 15>>

\* shNames.findIndex(v => !data.has(v)), 0-based, -1 when every name is present
firstMissingSH(names) ==
    IF \A k \in DOMAIN shNames : shNames[k] \in names THEN 0 - 1
    ELSE (CHOOSE k \in DOMAIN shNames :
              shNames[k] \notin names /\ \A j \in 1..(k - 1) : shNames[j] \in names) - 1

\* { '9': 1, '24': 2, '-1': 3 }[m] ?? 0
bandsOfIndex(m) == IF m = 9 THEN 1 ELSE IF m = 24 THEN 2 ELSE IF m = 0 - 1 THEN 3 ELSE 0

\* the number of sh bands present in a set of property names
calcSHBands(names) == bandsOfIndex(firstMissingSH(names))

----------------------------------------------------------------------------
(* SplatTransformCache.  The transforms of the model are the two matrices  *)
(* closed under product that the fixed axis correction generates: the      *)
(* identity "I" and the half turn about z "Rz180".  A collection may carry  *)
(* a transform index array `indices` and a palette `palette` of such        *)
(* matrices; without them every gaussian uses palette index 0.              *)
(* An object the cache constructs is the record of its value and of `id`,   *)
(* its place among the objects built by the same cache.                     *)

Mat4_mul2(a, b) == IF a = b THEN "I" ELSE "Rz180"

\* getMat(index): setFromEulerAngles(0, 0, -180) times the world transform
getMat(splat, keepWorldTransform) ==
    IF keepWorldTransform THEN "I" ELSE Mat4_mul2("Rz180", splat.world)

\* mat.transformPoint(v, v)
transformPoint(mat, v) == IF mat = "I" THEN v ELSE <<0 - v[1], 0 - v[2], v[3]>>

\* Quat.mul2(lhs, rhs), components <<x, y, z, w>>
Quat_mul2(l, r) ==
    << l[4] * r[1] + l[1] * r[4] + l[2] * r[3] - l[3] * r[2],
       l[4] * r[2] + l[2] * r[4] + l[3] * r[1] - l[1] * r[3],
       l[4] * r[3] + l[3] * r[4] + l[1] * r[2] - l[2] * r[1],
       l[4] * r[4] - l[1] * r[1] - l[2] * r[2] - l[3] * r[3] >>

\* indices?.[index] ?? 0
transformIndexOf(splat, i) == IF "indices" \in DOMAIN splat THEN splat.indices[i] ELSE 0

\* the matrix getMat builds for palette index t: combined with the palette
\* matrix if (transform.transformIndex > 0)
buildMat(splat, keepWorldTransform, t) ==
    IF t > 0 THEN Mat4_mul2(getMat(splat, keepWorldTransform), splat.palette[t])
    ELSE getMat(splat, keepWorldTransform)

\* new Quat().setFromMat4(mat), as <<x, y, z, w>>
Quat_setFromMat4(mat) == IF mat = "I" THEN <<0, 0, 0, 1>> ELSE <<0, 0, 1, 0>>

\* mat.getScale(scale)
Mat4_getScale(mat) == <<1, 1, 1>>

\* null, where an object may stand; !object
Null == [value |-> "null", id |-> 0]

isNull(object) == object.id = 0

\* { transformIndex, mat: null, rot: null, scale: null, shRot: null }
newTransform(t) ==
    [transformIndex |-> t, mat |-> Null, rot |-> Null, scale |-> Null, shRot |-> Null]

\* new SplatTransformCache(splat, keepWorldTransform): the Map `transforms`,
\* and the objects built so far as <<transformIndex, field>>
newTransformCache == [transforms |-> <<>>, built |-> <<>>]

\* an entry put into the Map at every call, found or not
getTransformFresh(tc, t) == [tc EXCEPT !.transforms = (t :> newTransform(t)) @@ @]

\* getTransform(index): the cache after the call, with an entry for t
getTransform(tc, t) ==
    IF t \in DOMAIN tc.transforms THEN tc
    ELSE [tc EXCEPT !.transforms = (t :> newTransform(t)) @@ @]

\* transform.<field> = a newly constructed object
construct(tc, t, field, value) ==
    [tc EXCEPT !.transforms[t][field] = [value |-> value, id |-> Len(tc.built) + 1],
               !.built = Append(@, <<t, field>>)]

\* if (!transform.mat) { ... transform.mat = mat }
cacheMat(tc, splat, keepWorldTransform, t) ==
    IF isNull(tc.transforms[t].mat)
    THEN construct(tc, t, "mat", buildMat(splat, keepWorldTransform, t))
    ELSE tc

\* this.getMat(index): the cache after the call
Cache_getMat(tc, splat, keepWorldTransform, t) ==
    cacheMat(getTransform(tc, t), splat, keepWorldTransform, t)

\* transform.rot = new Quat().setFromMat4(mat), mat as this.getMat(index) left it
setRot(tc, t) == construct(tc, t, "rot", Quat_setFromMat4(tc.transforms[t].mat.value))

\* this.getRot(index): the cache after the call
cacheRot(tc, splat, keepWorldTransform, t) ==
    IF isNull(tc.transforms[t].rot)
    THEN setRot(Cache_getMat(tc, splat, keepWorldTransform, t), t)
    ELSE tc

Cache_getRot(tc, splat, keepWorldTransform, t) ==
    cacheRot(getTransform(tc, t), splat, keepWorldTransform, t)

\* this.getMat(index).getScale(scale); transform.scale = scale
setScale(tc, t) == construct(tc, t, "scale", Mat4_getScale(tc.transforms[t].mat.value))

\* this.getScale(index): the cache after the call
cacheScale(tc, splat, keepWorldTransform, t) ==
    IF isNull(tc.transforms[t].scale)
    THEN setScale(Cache_getMat(tc, splat, keepWorldTransform, t), t)
    ELSE tc

Cache_getScale(tc, splat, keepWorldTransform, t) ==
    cacheScale(getTransform(tc, t), splat, keepWorldTransform, t)

\* transform.shRot = new SHRotation(tmpMat3), from this.getMat(index)
setSHRot(tc, t) == construct(tc, t, "shRot", tc.transforms[t].mat.value)

\* this.getSHRot(index): the cache after the call
cacheSHRot(tc, splat, keepWorldTransform, t) ==
    IF isNull(tc.transforms[t].shRot)
    THEN setSHRot(Cache_getMat(tc, splat, keepWorldTransform, t), t)
    ELSE tc

Cache_getSHRot(tc, splat, keepWorldTransform, t) ==
    cacheSHRot(getTransform(tc, t), splat, keepWorldTransform, t)

\* the cache after transformCache.get<Field>(index)
Cache_get(tc, field, splat, keepWorldTransform, t) ==
    CASE field = "mat" -> Cache_getMat(tc, splat, keepWorldTransform, t)
      [] field = "rot" -> Cache_getRot(tc, splat, keepWorldTransform, t)
      [] field = "scale" -> Cache_getScale(tc, splat, keepWorldTransform, t)
      [] field = "shRot" -> Cache_getSHRot(tc, splat, keepWorldTransform, t)

----------------------------------------------------------------------------
(* SingleSplat *)

\* the source name taken from the first channel whatever the channel is
srcSHNameFirstChannel(a, b, srcSHCoeffs) == shNames[b + 1]

\* the source name behind destination coefficient b of channel a
srcSHName(a, b, srcSHCoeffs) == shNames[a * srcSHCoeffs + b + 1]

\* srcProps[name] for an f_rest_ member, read at i: the source coefficient
\* b of channel a, or nothing (0) when the source has no such coefficient
srcSH(splat, name, i, dstSHCoeffs, srcSHCoeffs) ==
    IF dstSHCoeffs = 0 THEN 0     \* b is NaN: (b < srcSHCoeffs) is false
    ELSE IF (shIndex(name) % dstSHCoeffs) < srcSHCoeffs
            /\ srcSHName(shIndex(name) \div dstSHCoeffs, shIndex(name) % dstSHCoeffs, srcSHCoeffs)
                   \in getVertexProperties(splat)
         THEN getProp(splat, srcSHName(shIndex(name) \div dstSHCoeffs,
                                       shIndex(name) % dstSHCoeffs, srcSHCoeffs), i)
         ELSE 0

\* srcProps[name]?.[i] ?? 0 for the cache entry of `splat`
srcValue(members, splat, name, i) ==
    IF name \in Range(shNames)
    THEN srcSH(splat, name, i, shBandCoeffs[calcSHBands(Range(members)) + 1],
               shBandCoeffs[calcSHBands(getVertexProperties(splat)) + 1])
    ELSE IF name \in getVertexProperties(splat) THEN getProp(splat, name, i) ELSE 0

\* members.forEach(name => data[name] = srcProps[name]?.[i] ?? 0)
copyMembers(members, splat, i) ==
    [name \in Range(members) |-> srcValue(members, splat, name, i)]

\* [data.x, data.y, data.z] = [v.x, v.y, v.z]
setPosition(data, v) ==
    [name \in DOMAIN data |->
        CASE name = "x" -> v[1] [] name = "y" -> v[2] [] name = "z" -> v[3]
          [] OTHER -> data[name]]

\* new Vec3() and new Quat(): the scratch objects v and q as the module makes them
newScratch == [v |-> <<0, 0, 0>>, q |-> <<0, 0, 0, 1>>]

\* v.set(x, y, z)
Vec3_set(v, x, y, z) == <<x, y, z>>

\* q.set(x, y, z, w)
Quat_set(qq, x, y, z, w) == <<x, y, z, w>>

\* if (hasPosition) { v.set(data.x, data.y, data.z); mat.transformPoint(v, v) ... }
applyPosition(data, mat, v) ==
    IF {"x", "y", "z"} \subseteq DOMAIN data
    THEN setPosition(data, transformPoint(mat, Vec3_set(v, data["x"], data["y"], data["z"])))
    ELSE data

\* [data.rot_1, data.rot_2, data.rot_3, data.rot_0] = [q.x, q.y, q.z, q.w]
setRotation(data, qt) ==
    [name \in DOMAIN data |->
        CASE name = "rot_1" -> qt[1] [] name = "rot_2" -> qt[2]
          [] name = "rot_3" -> qt[3] [] name = "rot_0" -> qt[4]
          [] OTHER -> data[name]]

\* q multiplied as the call finds it, without q.set(...) first
applyRotationStale(data, quat, qq) ==
    IF {"rot_0", "rot_1", "rot_2", "rot_3"} \subseteq DOMAIN data
    THEN setRotation(data, Quat_mul2(quat, qq))
    ELSE data

\* if (hasRotation) { q.set(rot_1, rot_2, rot_3, rot_0).mul2(quat, q) ... }
applyRotation(data, quat, qq) ==
    IF {"rot_0", "rot_1", "rot_2", "rot_3"} \subseteq DOMAIN data
    THEN setRotation(data, Quat_mul2(quat, Quat_set(qq, data["rot_1"], data["rot_2"],
                                                    data["rot_3"], data["rot_0"])))
    ELSE data

\* the order m of coefficient d of a channel: band l holds m = -l..l
shOrder(d) == IF d < 3 THEN d - 1 ELSE IF d < 8 THEN d - 5 ELSE d - 11

\* -value
negate(value) == IF value = NaN THEN NaN ELSE 0 - value

\* SHRotation(mat3).apply(tmpSHData), coefficient d: a half turn about z
\* multiplies the coefficient of order m by (-1)^m
SHRotation_apply(mat, d, value) ==
    IF mat = "I" \/ shOrder(d) % 2 = 0 THEN value ELSE negate(value)

\* if (dstSHBands > 0) { for c, d: tmpSHData[d] = data[...]; apply; copy back }
applySHRot(data, dstSHCoeffs, mat) ==
    IF dstSHCoeffs = 0 THEN data
    ELSE [name \in DOMAIN data |->
             IF name \in Range(SubSeq(shNames, 1, 3 * dstSHCoeffs))
             THEN SHRotation_apply(mat, shIndex(name) % dstSHCoeffs, data[name])
             ELSE data[name]]

\* SH_C0 = 0.28209479177387814, in thousandths
SH_C0 == 282

\* the colour parameters of a Splat at the values hasTint compares them with,
\* in tenths; a collection of the model that names no parameters has these
untinted ==
    [tintClr |-> <<10, 10, 10>>, temperature |-> 0, saturation |-> 10, brightness |-> 10,
     blackPoint |-> 0, whitePoint |-> 10]

\* const { tintClr, temperature, saturation, brightness, blackPoint, whitePoint } = splat
tintOf(splat) == IF "tint" \in DOMAIN splat THEN splat.tint ELSE untinted

\* const hasTint = (!tintClr.equals(Color.WHITE) || temperature !== 0 || ...)
hasTint(splat) ==
    \/ tintOf(splat).tintClr # <<10, 10, 10>>
    \/ tintOf(splat).temperature # 0
    \/ tintOf(splat).saturation # 10
    \/ tintOf(splat).brightness # 10
    \/ tintOf(splat).blackPoint # 0
    \/ tintOf(splat).whitePoint # 10

\* const to = (value) => value * SH_C0 + 0.5: thousandths to millionths
to(value) == value * SH_C0 + 500000

\* const from = (value) => (value - 0.5) / SH_C0: millionths to thousandths
from(value) == (value - 500000) \div SH_C0

\* const offset = -blackPoint + brightness, in millionths
tintOffset(t) == (0 - t.blackPoint + t.brightness) * 100000

\* const s = { r: scale * tintClr.r * (1 + temperature), g: scale * tintClr.g,
\* b: scale * tintClr.b * (1 - temperature) } for scale = 1 / (whitePoint - blackPoint):
\* the numerators, over the denominator (whitePoint - blackPoint) * 10
tintScale(t) ==
    [num |-> <<t.tintClr[1] * (10 + t.temperature), t.tintClr[2] * 10,
               t.tintClr[3] * (10 - t.temperature)>>,
     den |-> (t.whitePoint - t.blackPoint) * 10]

\* offset and scale: c = offset + c * s
offsetScale(c, s, offset) == [k \in 1..3 |-> offset + (c[k] * s.num[k]) \div s.den]

\* const grey = c.r * 0.299 + c.g * 0.587 + c.b * 0.114
grey(c) == ((c[1] \div 10) * 299 + (c[2] \div 10) * 587 + (c[3] \div 10) * 114) \div 100

\* saturation: c = grey + (c - grey) * saturation
saturate(c, g, saturation) == [k \in 1..3 |-> g + ((c[k] - g) * saturation) \div 10]

\* applyTransform(c, s, offset): c afterwards
applyTransform(c, s, offset, saturation) ==
    saturate(offsetScale(c, s, offset), grey(offsetScale(c, s, offset)), saturation)

\* c = { r: to(data.f_dc_0), ... }; applyTransform(c, s, offset); data.f_dc_0 = from(c.r) ...
tintDC(data, t) ==
    applyTransform(<<to(data["f_dc_0"]), to(data["f_dc_1"]), to(data["f_dc_2"])>>,
                   tintScale(t), tintOffset(t), t.saturation)

\* c.r = data[shNames[d]] ...; applyTransform(c, s, 0) for coefficient d
tintSH(data, t, d, dstSHCoeffs) ==
    applyTransform(<<data[shNames[d + 1]], data[shNames[d + dstSHCoeffs + 1]],
                     data[shNames[d + dstSHCoeffs * 2 + 1]]>>,
                   tintScale(t), 0, t.saturation)

\* the body of if (!keepColorTint && hasColor && hasTint) { ... }: data afterwards
applyTint(data, t, dstSHCoeffs) ==
    [name \in DOMAIN data |->
        CASE name = "f_dc_0" -> from(tintDC(data, t)[1])
          [] name = "f_dc_1" -> from(tintDC(data, t)[2])
          [] name = "f_dc_2" -> from(tintDC(data, t)[3])
          [] name \in Range(SubSeq(shNames, 1, 3 * dstSHCoeffs)) ->
                tintSH(data, t, shIndex(name) % dstSHCoeffs, dstSHCoeffs)[(shIndex(name) \div dstSHCoeffs) + 1]
          [] OTHER -> data[name]]

\* if (!serializeSettings.keepColorTint && hasColor && hasTint) { ... }
colorStage(data, members, settings, splat) ==
    IF ~settings.keepColorTint /\ {"f_dc_0", "f_dc_1", "f_dc_2"} \subseteq Range(members)
       /\ hasTint(splat)
    THEN applyTint(data, tintOf(splat), shBandCoeffs[calcSHBands(Range(members)) + 1])
    ELSE data

\* SingleSplat.read(splat, i) up to the rotation of the coefficients: the
\* record singleSplat.data.  The collections of the model have unit scale, so
\* the scale stage leaves data as it is.
readWith(sc, members, splat, i, mat) ==
    applySHRot(applyRotation(applyPosition(copyMembers(members, splat, i), mat, sc.v),
                             Quat_setFromMat4(mat), sc.q),
               shBandCoeffs[calcSHBands(Range(members)) + 1], mat)

\* read(splat, i) when v and q hold sc: the record singleSplat.data after
\* the call.  The collections of the model are opaque, so the opacity stage
\* leaves data as it is.
readFrom(sc, members, settings, splat, i) ==
    colorStage(readWith(sc, members, splat, i,
                        buildMat(splat, settings.keepWorldTransform, transformIndexOf(splat, i))),
               members, settings, splat)

\* read(splat, i) when v and q are as the module made them
read(members, settings, splat, i) == readFrom(newScratch, members, settings, splat, i)

\* v and q after a read that left `data`: mat.transformPoint(v, v) and
\* q.mul2(quat, q) store their results in them
scratchOf(sc, data) ==
    [v |-> IF {"x", "y", "z"} \subseteq DOMAIN data
           THEN <<data["x"], data["y"], data["z"]>> ELSE sc.v,
     q |-> IF {"rot_0", "rot_1", "rot_2", "rot_3"} \subseteq DOMAIN data
           THEN <<data["rot_1"], data["rot_2"], data["rot_3"], data["rot_0"]>> ELSE sc.q]

\* new SingleSplat(members, settings): no cache entry, an empty cacheMap; `made`
\* lists the collections a SplatTransformCache was constructed for and `got`
\* the objects the transform caches returned
newSingleSplat == [cacheEntry |-> 0, cacheMap |-> <<>>, made |-> <<>>, got |-> <<>>]

\* if (splat !== cacheEntry?.splat) { ... }: the cache entry of collection e
\* becomes the current one, constructed if cacheMap has none
enter(single, e) ==
    IF e = single.cacheEntry THEN single
    ELSE IF e \in DOMAIN single.cacheMap THEN [single EXCEPT !.cacheEntry = e]
    ELSE [single EXCEPT !.cacheEntry = e,
                        !.cacheMap = (e :> newTransformCache) @@ @,
                        !.made = Append(@, e)]

\* the object a getter of the current transform cache returned
returned(single, field, t) ==
    [single EXCEPT !.got = Append(@, [splat |-> single.cacheEntry, transformIndex |-> t,
                                      field |-> field,
                                      object |-> single.cacheMap[single.cacheEntry].transforms[t][field]])]

\* transformCache.get<Field>(i) on the current cache entry
get(single, field, splat, keepWorldTransform, t) ==
    returned([single EXCEPT !.cacheMap[single.cacheEntry] =
                                Cache_get(@, field, splat, keepWorldTransform, t)],
             field, t)

\* the getters read calls after getMat, in its order: getRot if the members
\* hold a rotation, getScale if they hold a scale, getSHRot once per channel
\* if they hold a band
getters(members) ==
    <<"mat">>
    \o (IF {"rot_0", "rot_1", "rot_2", "rot_3"} \subseteq Range(members) THEN <<"rot">> ELSE <<>>)
    \o (IF {"scale_0", "scale_1", "scale_2"} \subseteq Range(members) THEN <<"scale">> ELSE <<>>)
    \o (IF calcSHBands(Range(members)) > 0 THEN <<"shRot", "shRot", "shRot">> ELSE <<>>)

RECURSIVE getAll(_, _, _, _, _, _)
getAll(single, fields, k, splat, keepWorldTransform, t) ==
    IF k > Len(fields) THEN single
    ELSE getAll(get(single, fields[k], splat, keepWorldTransform, t), fields, k + 1,
                splat, keepWorldTransform, t)

\* the caches of the SingleSplat after read(ss[e], i)
readCaches(single, members, settings, ss, e, i) ==
    getAll(enter(single, e), getters(members), 1, ss[e], settings.keepWorldTransform,
           transformIndexOf(ss[e], i))

\* the caches after the reads of the entries of an index list from entry n
RECURSIVE readAll(_, _, _, _, _, _)
readAll(single, members, settings, ss, indices, n) ==
    IF n > Len(indices) THEN single
    ELSE readAll(readCaches(single, members, settings, ss, indices[n].splatIndex, indices[n].i),
                 members, settings, ss, indices, n + 1)

----------------------------------------------------------------------------
(* The Writer.  writer.write(data, finalWrite) hands a buffer to the sink  *)
(* and returns a promise; the sink settles the writes it holds one at a    *)
(* time, accepting or failing each.                                        *)

Buffer(kind, bytes, final, lines, fields) ==
    [kind |-> kind, bytes |-> bytes, final |-> final, lines |-> lines, fields |-> fields]

\* (new TextEncoder()).encode(lines.join('\n')).byteLength
RECURSIVE lineBytes(_)
lineBytes(lines) == IF lines = <<>> THEN 0 ELSE Len(Head(lines)) + lineBytes(Tail(lines))

byteLength(lines) == IF lines = <<>> THEN 0 ELSE lineBytes(lines) + Len(lines) - 1

\* the failures a sink may report
SinkErrors == {"EIO", "ENOSPC"}

\* await writer.write(b): the call is made and the function suspends at `next`
write(b, next) ==
    /\ inflight' = Append(inflight, b)
    /\ issued' = Append(issued, b)
    /\ awaited' = "none"
    /\ pc' = next

\* a write that is not awaited: the function goes on at once
resolvedAtOnce == TRUE

\* the awaited write has completed
resolved == inflight = <<>> /\ awaited = "ok"

\* the sink accepts one of the writes it holds
WriterAccept ==
    \E k \in DOMAIN inflight :
        /\ written' = Append(written, inflight[k])
        /\ inflight' = RemoveAt(inflight, k)
        /\ awaited' = "ok"
        /\ UNCHANGED <<op, splats, serializeSettings, options, pc, error, issued, sinkError, loc, scratch, peer>>

\* the sink fails one of the writes it holds
WriterFail ==
    \E k \in DOMAIN inflight, err \in SinkErrors :
        /\ inflight' = RemoveAt(inflight, k)
        /\ awaited' = err
        /\ sinkError' = IF sinkError = "none" THEN err ELSE sinkError
        /\ UNCHANGED <<op, splats, serializeSettings, options, pc, error, issued, written, loc, scratch, peer>>

\* the labels at which a function is suspended in `await writer.write(...)`
AwaitLabels == {"ply_header", "ply_block", "ply_last", "splat_write", "compressed_write",
                "viewer_html", "viewer_file", "viewer_close"}

\* an awaited write rejected and the rejection caught and dropped
Swallowed ==
    /\ pc \in {"ply_header", "ply_block", "ply_last", "splat_write", "compressed_write",
               "viewer_html", "viewer_file", "viewer_close"}
    /\ awaited \in SinkErrors
    /\ pc' = "done"
    /\ UNCHANGED <<op, splats, serializeSettings, options, error, inflight, written, issued, awaited, sinkError, loc, scratch, peer>>

\* an awaited write rejected: the async function has no handler, so its promise
\* rejects with the same error
Rejected ==
    /\ pc \in AwaitLabels
    /\ awaited \in SinkErrors
    /\ pc' = "failed"
    /\ error' = awaited
    /\ UNCHANGED <<op, splats, serializeSettings, options, inflight, written, issued, awaited, sinkError, loc, scratch, peer>>

----------------------------------------------------------------------------
(* serializePly *)

\* [0, 9, 24, 45][maxSHBands ?? 3]
shLimit(settings) == <<0, 9, 24, 45>>[Default(settings.maxSHBands, 3) + 1]

internalProps(settings) == IF settings.keepStateData THEN {"transform"} ELSE {"state", "transform"}

\* the props of serializePly: the common props without the internal ones and
\* without the f_rest_ entries beyond the requested bands
plyProps(ss, settings) ==
    SelectSeq(SelectSeq(getCommonProps(ss), LAMBDA p : p.name \notin internalProps(settings)),
              LAMBDA p : p.name \notin Range(shNames) \/ shIndex(p.name) < shLimit(settings))

plyHeader(total, props) ==
    <<"ply", "format binary_little_endian 1.0", "element vertex " \o ToString(total)>>
    \o [j \in DOMAIN props |-> "property " \o props[j].type \o " " \o props[j].name]
    \o <<"end_header", "">>

\* buf.byteLength: 1024 * the sum of the declared sizes
plyBufBytes(props) == BlockRows * SumSeq([j \in DOMAIN props |-> DataTypeSize(props[j].type)])

\* the bytes dataView.setUint8 / setFloat32 stores for a prop
storedSize(prop) == IF prop.type = "uchar" THEN 1 ELSE 4

\* the write loop over the props of one row, from prop j: the DataView throws a
\* RangeError when a store does not fit the buffer
RECURSIVE writeRow(_, _, _, _, _, _, _)
writeRow(props, data, e, i, j, offset, fields) ==
    IF j > Len(props) THEN [ok |-> TRUE, offset |-> offset, fields |-> fields]
    ELSE IF offset + storedSize(props[j]) > plyBufBytes(props)
         THEN [ok |-> FALSE, offset |-> offset, fields |-> fields]
         ELSE writeRow(props, data, e, i, j + 1, offset + storedSize(props[j]),
                       Append(fields, [e |-> e, i |-> i, name |-> props[j].name,
                                       at |-> offset, size |-> storedSize(props[j]),
                                       value |-> data[props[j].name]]))

\* the row loops of serializePly from (e, i) up to the next await, the return or a throw
\* sc is what v and q hold
RECURSIVE plyRows(_, _, _, _, _, _, _, _)

\* what the loop does once the props of row (e, i) are stored
plyAfterRow(sc, ss, settings, props, e, i, row) ==
    IF ~row.ok
    THEN [outcome |-> "RangeError", e |-> e, i |-> i, offset |-> row.offset, fields |-> row.fields,
          scratch |-> sc]
    ELSE IF row.offset = plyBufBytes(props)
    THEN [outcome |-> "flush", e |-> e, i |-> i + 1, offset |-> row.offset, fields |-> row.fields,
          scratch |-> sc]
    ELSE plyRows(sc, ss, settings, props, e, i + 1, row.offset, row.fields)

\* singleSplat.read(splat, i) left `data`: the row is written
plyRow(sc, ss, settings, props, e, i, offset, fields, data) ==
    plyAfterRow(scratchOf(sc, data), ss, settings, props, e, i,
                writeRow(props, data, e, i, 1, offset, fields))

plyRows(sc, ss, settings, props, e, i, offset, fields) ==
    IF e > Len(ss)
    THEN [outcome |-> "end", e |-> e, i |-> i, offset |-> offset, fields |-> fields, scratch |-> sc]
    ELSE IF i > numSplats(ss[e]) THEN plyRows(sc, ss, settings, props, e + 1, 1, offset, fields)
    ELSE IF ~test(settings, ss[e], i) THEN plyRows(sc, ss, settings, props, e, i + 1, offset, fields)
    ELSE plyRow(sc, ss, settings, props, e, i, offset, fields,
                readFrom(sc, [j \in DOMAIN props |-> props[j].name], settings, ss[e], i))

\* plyBegin without the early return: the header is written whatever the count
plyBeginUnchecked(totalGaussians, props, headerText) ==
    /\ write(Buffer("header", byteLength(headerText), FALSE, headerText, <<>>), "ply_header")
    /\ loc' = [props |-> props, totalGaussians |-> totalGaussians,
               e |-> 1, i |-> 1, offset |-> 0, fields |-> <<>>]

\* the header is written and the function suspends, or nothing passes the filter
plyBegin(totalGaussians, props, headerText) ==
    IF totalGaussians = 0
    THEN /\ pc' = "done"
         /\ UNCHANGED <<inflight, issued, awaited, loc>>
    ELSE /\ write(Buffer("header", byteLength(headerText), FALSE, headerText, <<>>), "ply_header")
         /\ loc' = [props |-> props, totalGaussians |-> totalGaussians,
                    e |-> 1, i |-> 1, offset |-> 0, fields |-> <<>>]

\* from the call to the first await: count, resolve the props, write the header
serializePly_start ==
    /\ op = "ply" /\ pc = "start"
    /\ plyBegin(countGaussians(splats, serializeSettings), plyProps(splats, serializeSettings),
                plyHeader(countGaussians(splats, serializeSettings), plyProps(splats, serializeSettings)))
    /\ UNCHANGED <<op, splats, serializeSettings, options, error, written, sinkError, scratch, peer>>

\* where the row loops stopped: a full buffer, the last buffer, the return, a throw
plyContinue(r) ==
    CASE r.outcome = "flush" ->
            /\ write(Buffer("block", plyBufBytes(loc.props), FALSE, <<>>, r.fields), "ply_block")
            /\ loc' = [loc EXCEPT !.e = r.e, !.i = r.i, !.offset = 0, !.fields = <<>>]
            /\ UNCHANGED error
      [] r.outcome = "end" /\ r.offset > 0 ->
            /\ write(Buffer("block", r.offset, FALSE, <<>>, r.fields), "ply_last")
            /\ loc' = [loc EXCEPT !.e = r.e, !.i = r.i, !.offset = r.offset, !.fields = r.fields]
            /\ UNCHANGED error
      [] r.outcome = "end" /\ r.offset = 0 ->
            /\ pc' = "done"
            /\ loc' = [loc EXCEPT !.e = r.e, !.i = r.i]
            /\ UNCHANGED <<inflight, issued, awaited, error>>
      [] r.outcome = "RangeError" ->
            /\ pc' = "failed"
            /\ error' = "RangeError"
            /\ loc' = [loc EXCEPT !.e = r.e, !.i = r.i, !.offset = r.offset, !.fields = r.fields]
            /\ UNCHANGED <<inflight, issued, awaited>>

\* after the header or a full block was written: the rows up to the next await
serializePly_rows ==
    /\ op = "ply" /\ pc \in {"ply_header", "ply_block"}
    /\ resolved
    /\ plyContinue(plyRows(scratch, splats, serializeSettings, loc.props, loc.e, loc.i,
                           loc.offset, loc.fields))
    /\ scratch' = plyRows(scratch, splats, serializeSettings, loc.props, loc.e, loc.i,
                          loc.offset, loc.fields).scratch
    /\ UNCHANGED <<op, splats, serializeSettings, options, written, sinkError, peer>>

\* after the last, partly filled block was written
serializePly_end ==
    /\ op = "ply" /\ pc = "ply_last"
    /\ resolved
    /\ pc' = "done"
    /\ UNCHANGED <<op, splats, serializeSettings, options, error, inflight, written, issued, awaited, sinkError, loc, scratch, peer>>

----------------------------------------------------------------------------
(* serializeSplat *)

\* Math.exp(v) in thousandths, for the log-scales of the model
exp(v) == CASE v = 0 - 1 -> 368 [] v = 0 -> 1000 [] v = 1 -> 2718

\* no clamp: the value goes to setUint8 as it is
clampNone(x) == x

\* const clamp = (x) => Math.max(0, Math.min(255, x)), on thousandths; NaN stays NaN
clamp(x) == IF x = NaN THEN NaN ELSE IF x < 0 THEN 0 ELSE IF x > 255000 THEN 255000 ELSE x

\* the byte dataView.setUint8 stores for a number given in thousandths: NaN
\* gives 0, anything else is truncated towards zero and taken modulo 256
setUint8(x) ==
    IF x = NaN THEN 0
    ELSE IF x >= 0 THEN (x \div 1000) % 256
    ELSE (256 - (((0 - x) \div 1000) % 256)) % 256

\* (0.5 + SH_C0 * f_dc) * 255, f_dc and the result in thousandths
colorValue(f_dc) == ((500000 + SH_C0 * f_dc) * 255) \div 1000

\* (1 / (1 + Math.exp(-opacity))) * 255, in thousandths
alphaValue(opacity) == IF opacity = NaN THEN NaN ELSE sigmoid(opacity) * 255

\* rot * 128 + 128, in thousandths, for a component in whole units
rotValue(rot) == (rot * 128 + 128) * 1000

splatProps == <<"x", "y", "z", "opacity", "rot_0", "rot_1", "rot_2", "rot_3",
                "f_dc_0", "f_dc_1", "f_dc_2", "scale_0", "scale_1", "scale_2">>

\* the 32 bytes stored at off for one gaussian: six floats, then eight bytes
splatRecord(e, i, off, data) ==
    [e |-> e, i |-> i, at |-> off, size |-> 32,
     floats |-> <<data["x"], data["y"], data["z"],
                  exp(data["scale_0"]), exp(data["scale_1"]), exp(data["scale_2"])>>,
     bytes |-> <<setUint8(clamp(colorValue(data["f_dc_0"]))),
                 setUint8(clamp(colorValue(data["f_dc_1"]))),
                 setUint8(clamp(colorValue(data["f_dc_2"]))),
                 setUint8(clamp(alphaValue(data["opacity"]))),
                 setUint8(clamp(rotValue(data["rot_0"]))),
                 setUint8(clamp(rotValue(data["rot_1"]))),
                 setUint8(clamp(rotValue(data["rot_2"]))),
                 setUint8(clamp(rotValue(data["rot_3"])))>>]

\* the loops of serializeSplat from (e, i), idx records stored so far
\* sc is what v and q hold
RECURSIVE splatRecords(_, _, _, _, _, _)

\* singleSplat.read(splat, i) left `data`: the record is written
splatAppend(sc, ss, settings, e, i, recs, data) ==
    splatRecords(scratchOf(sc, data), ss, settings, e, i + 1,
                 Append(recs, splatRecord(e, i, Len(recs) * 32, data)))

splatRecords(sc, ss, settings, e, i, recs) ==
    IF e > Len(ss) THEN recs
    ELSE IF i > numSplats(ss[e]) THEN splatRecords(sc, ss, settings, e + 1, 1, recs)
    ELSE IF ~test(settings, ss[e], i) THEN splatRecords(sc, ss, settings, e, i + 1, recs)
    ELSE splatAppend(sc, ss, settings, e, i, recs, readFrom(sc, splatProps, settings, ss[e], i))

\* v and q after the loops of serializeSplat
RECURSIVE splatScratch(_, _, _, _, _)
splatScratch(sc, ss, settings, e, i) ==
    IF e > Len(ss) THEN sc
    ELSE IF i > numSplats(ss[e]) THEN splatScratch(sc, ss, settings, e + 1, 1)
    ELSE IF ~test(settings, ss[e], i) THEN splatScratch(sc, ss, settings, e, i + 1)
    ELSE splatScratch(scratchOf(sc, readFrom(sc, splatProps, settings, ss[e], i)),
                      ss, settings, e, i + 1)

\* the buffer is filled and handed to the writer, or nothing passes the filter
splatBegin(totalGaussians) ==
    IF totalGaussians = 0
    THEN /\ pc' = "done"
         /\ UNCHANGED <<inflight, issued, awaited, loc>>
    ELSE /\ write(Buffer("splat", totalGaussians * 32, TRUE, <<>>,
                         splatRecords(scratch, splats, serializeSettings, 1, 1, <<>>)),
               "splat_write")
         /\ loc' = [totalGaussians |-> totalGaussians]

\* from the call to the await of the only write
serializeSplat_start ==
    /\ op = "splat" /\ pc = "start"
    /\ splatBegin(countGaussians(splats, serializeSettings))
    /\ scratch' = splatScratch(scratch, splats, serializeSettings, 1, 1)
    /\ UNCHANGED <<op, splats, serializeSettings, options, error, written, sinkError, peer>>

\* after the write
serializeSplat_end ==
    /\ op = "splat" /\ pc = "splat_write"
    /\ resolved
    /\ pc' = "done"
    /\ UNCHANGED <<op, splats, serializeSettings, options, error, inflight, written, issued, awaited, sinkError, loc, scratch, peer>>

----------------------------------------------------------------------------
(* sortSplats *)

Min(a, b) == IF a < b THEN a ELSE b
Max(a, b) == IF a > b THEN a ELSE b

\* x << shift on 32-bit integers: the bits shifted out are lost.  Bit 31 is left
\* out as well: every mask of Part1By2 that meets a set bit 31 clears it
shiftLeft(x, shift) == (x % (2 ^ (31 - shift))) * (2 ^ shift)

\* x = (x ^ (x << shift)) & mask
spread(x, shift, mask) == BitAnd(BitXor(x, shiftLeft(x, shift)), mask)

\* the 32-bit integer a bitwise operator makes of its operand: NaN becomes 0
toInt32(x) == IF x = NaN THEN 0 ELSE x

\* Part1By2: two zero bits between the low ten bits of x.  The first mask is
\* 0xff0000ff in the source; x stays below 2^26 there, so its top bit is idle
Part1By2(x) ==
    spread(spread(spread(spread(BitAnd(toInt32(x), 1023), 16, 2130706687), 8, 50393103),
                  4, 51130563),
           2, 153391689)

encodeMorton3(x, y, z) == Part1By2(z) * 4 + Part1By2(y) * 2 + Part1By2(x)

\* the centers of the gaussians that are not deleted, in the order both loops
\* of sortSplats visit them
RECURSIVE liveCenters(_, _, _)
liveCenters(ss, e, i) ==
    IF e > Len(ss) THEN <<>>
    ELSE IF i > numSplats(ss[e]) THEN liveCenters(ss, e + 1, 1)
    ELSE (IF BitAnd(getProp(ss[e], "state", i), State_deleted) = 0
          THEN <<ss[e].centers[i]>> ELSE <<>>) \o liveCenters(ss, e, i + 1)

\* the extent loop on one axis: <<min, max>> after the centers from k
RECURSIVE extent(_, _, _, _, _)
extent(cs, axis, k, lo, hi) ==
    IF k > Len(cs) THEN <<lo, hi>>
    ELSE IF cs[k][axis] < lo THEN extent(cs, axis, k + 1, cs[k][axis], hi)
    ELSE IF cs[k][axis] > hi THEN extent(cs, axis, k + 1, lo, cs[k][axis])
    ELSE extent(cs, axis, k + 1, lo, hi)

\* Math.min(1023, Math.floor(1024 * (x - min) / len)); with len = 0 the
\* quotient is 0 / 0, and Math.floor and Math.min hand the NaN on
cell(x, ext) ==
    IF ext[2] - ext[1] = 0 THEN NaN
    ELSE Min(1023, (1024 * (x - ext[1])) \div (ext[2] - ext[1]))

\* the code of one center within the extents of cs
mortonOf(c, cs) ==
    encodeMorton3(cell(c[1], extent(cs, 1, 2, cs[1][1], cs[1][1])),
                  cell(c[2], extent(cs, 2, 2, cs[1][2], cs[1][2])),
                  cell(c[3], extent(cs, 3, 2, cs[1][3], cs[1][3])))

\* the morton array: new Uint32Array(indices.length), filled in visiting order;
\* a store past its end is dropped
mortonArray(cs, n) == [g \in 1..n |-> mortonOf(cs[g], cs)]

\* indices.sort((a, b) => morton[a.globalIndex] - morton[b.globalIndex]): stable
RECURSIVE insertByKey(_, _, _)
insertByKey(sorted, item, morton) ==
    IF sorted = <<>> THEN <<item>>
    ELSE IF morton[item.globalIndex + 1] < morton[Head(sorted).globalIndex + 1]
    THEN <<item>> \o sorted
    ELSE <<Head(sorted)>> \o insertByKey(Tail(sorted), item, morton)

RECURSIVE sortByKey(_, _, _)
sortByKey(indices, k, morton) ==
    IF k = 0 THEN <<>>
    ELSE insertByKey(sortByKey(indices, k - 1, morton), indices[k], morton)

sortSplats(ss, indices) ==
    sortByKey(indices, Len(indices), mortonArray(liveCenters(ss, 1, 1), Len(indices)))

----------------------------------------------------------------------------
(* Chunk.  Positions, log-scales, rotations and opacities are whole units,   *)
(* f_dc_ values are thousandths and colours millionths.  A normalised value  *)
(* is a fraction <<n, d>>; a 32-bit word is the pair <<high half, low half>>  *)
(* of its 16-bit halves.                                                     *)

Chunk_members == <<"x", "y", "z", "scale_0", "scale_1", "scale_2",
                   "f_dc_0", "f_dc_1", "f_dc_2", "opacity",
                   "rot_0", "rot_1", "rot_2", "rot_3">>

\* new Chunk(): Float32Arrays and Uint32Arrays of `size` zeros
newChunk ==
    [data |-> [name \in Range(Chunk_members) |-> [j \in 1..ChunkSize |-> 0]],
     position |-> [j \in 1..ChunkSize |-> <<0, 0>>],
     rotation |-> [j \in 1..ChunkSize |-> <<0, 0>>],
     scale |-> [j \in 1..ChunkSize |-> <<0, 0>>],
     color |-> [j \in 1..ChunkSize |-> <<0, 0>>]]

\* chunk.set(index, splat), index counted from 1
Chunk_set(chunk, index, data) ==
    [chunk EXCEPT !.data = [name \in Range(Chunk_members) |->
                               [chunk.data[name] EXCEPT ![index] = data[name]]]]

\* Math.min and Math.max: NaN if either argument is
fmin(a, b) == IF a = NaN \/ b = NaN THEN NaN ELSE Min(a, b)
fmax(a, b) == IF a = NaN \/ b = NaN THEN NaN ELSE Max(a, b)

\* a <= b as JavaScript evaluates it
Leq(a, b) == a # NaN /\ b # NaN /\ a <= b

RECURSIVE calcMinMaxFrom(_, _, _, _)
calcMinMaxFrom(data, i, lo, hi) ==
    IF i > Len(data) THEN [min |-> lo, max |-> hi]
    ELSE calcMinMaxFrom(data, i + 1, fmin(lo, data[i]), fmax(hi, data[i]))

calcMinMax(data) == calcMinMaxFrom(data, 2, data[1], data[1])

\* normalize(x, min, max); tiny is 0.00001 in the unit of x, rounded up
normalize(x, min, max, tiny) ==
    IF Leq(x, min) THEN <<0, 1>>
    ELSE IF Leq(max, x) THEN <<1, 1>>
    ELSE IF min = NaN \/ max = NaN THEN <<NaN, 1>>
    ELSE IF max - min < tiny THEN <<0, 1>>
    ELSE IF x = NaN THEN <<NaN, 1>>
    ELSE <<x - min, max - min>>

\* clamp(v, min, max) of pack
clampTo(v, min, max) == fmax(min, fmin(max, v))

\* sx.min = clamp(sx.min, -20, 20); sx.max = clamp(sx.max, -20, 20)
clampScale(r) == [min |-> clampTo(r.min, 0 - 20, 20), max |-> clampTo(r.max, 0 - 20, 20)]

\* f_dc * SH_C0 + 0.5, in millionths
toColor(f_dc) == IF f_dc = NaN THEN NaN ELSE f_dc * SH_C0 + 500000

\* the Chunk after the f_dc_ arrays are converted to colours in place
convertColors(chunk) ==
    [chunk EXCEPT !.data = [name \in Range(Chunk_members) |->
                               IF name \in {"f_dc_0", "f_dc_1", "f_dc_2"}
                               THEN [j \in 1..ChunkSize |-> toColor(chunk.data[name][j])]
                               ELSE chunk.data[name]]]

\* { px, py, pz, sx, sy, sz, cr, cg, cb } of a Chunk whose colours are converted
packResult(chunk) ==
    [px |-> calcMinMax(chunk.data["x"]),
     py |-> calcMinMax(chunk.data["y"]),
     pz |-> calcMinMax(chunk.data["z"]),
     sx |-> clampScale(calcMinMax(chunk.data["scale_0"])),
     sy |-> clampScale(calcMinMax(chunk.data["scale_1"])),
     sz |-> clampScale(calcMinMax(chunk.data["scale_2"])),
     cr |-> calcMinMax(chunk.data["f_dc_0"]),
     cg |-> calcMinMax(chunk.data["f_dc_1"]),
     cb |-> calcMinMax(chunk.data["f_dc_2"])]

\* value scaled by 1 << bits and floored, with no clamp: 1.0 needs bits + 1 bits
packUnormScaled(value, bits) ==
    IF value[1] = NaN THEN NaN
    ELSE (value[1] * (2 ^ bits)) \div value[2]

\* Math.max(0, Math.min(t, Math.floor(value * t + 0.5))) for t = (1 << bits) - 1
packUnorm(value, bits) ==
    IF value[1] = NaN THEN NaN
    ELSE Max(0, Min(2 ^ bits - 1,
                    (2 * value[1] * (2 ^ bits - 1) + value[2]) \div (2 * value[2])))

\* a | b on non-negative integers
BitOr(a, b) == a + b - BitAnd(a, b)

\* (v << shift) as a 32-bit word; NaN converts to 0
shl32(v, shift) ==
    IF v = NaN THEN <<0, 0>>
    ELSE IF shift >= 16 THEN <<(v * 2 ^ (shift - 16)) % 65536, 0>>
    ELSE <<((v * 2 ^ shift) \div 65536) % 65536, (v * 2 ^ shift) % 65536>>

\* a | b on 32-bit words
or32(a, b) == <<BitOr(a[1], b[1]), BitOr(a[2], b[2])>>

pack111011(x, y, z) ==
    or32(or32(shl32(packUnorm(x, 11), 21), shl32(packUnorm(y, 10), 11)),
         shl32(packUnorm(z, 11), 0))

pack8888(x, y, z, w) ==
    or32(or32(or32(shl32(packUnorm(x, 8), 24), shl32(packUnorm(y, 8), 16)),
              shl32(packUnorm(z, 8), 8)),
         shl32(packUnorm(w, 8), 0))

\* (w << shift) on a 32-bit word, shift below 16
shlWord(w, shift) ==
    <<((w[1] * 2 ^ shift) % 65536) + ((w[2] * 2 ^ shift) \div 65536), (w[2] * 2 ^ shift) % 65536>>

\* the floor of the square root of n, known to lie in lo..hi
RECURSIVE sqrtBetween(_, _, _)
sqrtStep(n, lo, hi, mid) ==
    IF mid * mid <= n THEN sqrtBetween(n, mid, hi) ELSE sqrtBetween(n, lo, mid - 1)

sqrtBetween(n, lo, hi) == IF lo >= hi THEN lo ELSE sqrtStep(n, lo, hi, (lo + hi + 1) \div 2)

\* Math.sqrt on non-negative integers, floored
sqrt(n) == sqrtBetween(n, 0, 46340)

\* a / b rounded to the nearest integer, b positive
divRound(a, b) ==
    IF a >= 0 THEN (2 * a + b) \div (2 * b) ELSE 0 - ((2 * (0 - a) + b) \div (2 * b))

\* the length of a quaternion of whole components, in ten-thousandths
Quat_length(qt) ==
    sqrt((qt[1] * qt[1] + qt[2] * qt[2] + qt[3] * qt[3] + qt[4] * qt[4]) * 100000000)

\* q.set(x, y, z, w).normalize(): components in ten-thousandths; the zero
\* quaternion becomes the identity
Quat_normalize(qt) ==
    IF \E k \in 1..4 : qt[k] = NaN THEN <<NaN, NaN, NaN, NaN>>
    ELSE IF Quat_length(qt) = 0 THEN <<0, 0, 0, 10000>>
    ELSE [k \in 1..4 |-> divRound(qt[k] * 100000000, Quat_length(qt))]

\* Math.abs
abs(x) == IF x = NaN THEN NaN ELSE IF x < 0 THEN 0 - x ELSE x

\* a.reduce((curr, v, i) => (Math.abs(v) > Math.abs(a[curr]) ? i : curr), 0),
\* components counted from 1
RECURSIVE largestFrom(_, _, _)
largestFrom(a, i, curr) ==
    IF i > 4 THEN curr
    ELSE largestFrom(a, i + 1, IF Less(abs(a[curr]), abs(a[i])) THEN i ELSE curr)

\* the component kept whatever the magnitudes are: the last one
largestLast(a) == 4

largest(a) == largestFrom(a, 1, 1)

\* if (a[largest] < 0) every component is negated
canonical(a) == IF Less(a[largest(a)], 0) THEN [k \in 1..4 |-> negate(a[k])] ELSE a

\* a[i] * norm + 0.5 for norm = Math.sqrt(2) * 0.5, as a fraction
rotUnorm(c) == IF c = NaN THEN <<NaN, 1>> ELSE <<(c * 7071) \div 10000 + 5000, 10000>>

\* the loop of packRot from component i
RECURSIVE packRotFrom(_, _, _, _)
packRotFrom(a, l, i, result) ==
    IF i > 4 THEN result
    ELSE IF i = l THEN packRotFrom(a, l, i + 1, result)
    ELSE packRotFrom(a, l, i + 1,
                     or32(shlWord(result, 10), shl32(packUnorm(rotUnorm(a[i]), 10), 0)))

packRotOf(a) == packRotFrom(canonical(a), largest(a), 1, <<0, largest(a) - 1>>)

\* pack quaternion into 2,10,10,10: q.set(x, y, z, w).normalize() on the scratch q
packRot(qq, x, y, z, w) == packRotOf(Quat_normalize(Quat_set(qq, x, y, z, w)))

\* 1 / (1 + Math.exp(-opacity)) as a fraction
alphaUnorm(opacity) == IF opacity = NaN THEN <<NaN, 1>> ELSE <<sigmoid(opacity), 1000>>

\* the pack loop for slot i of a Chunk whose colours are converted
packPosition(d, r, i) ==
    pack111011(normalize(d["x"][i], r.px.min, r.px.max, 1),
               normalize(d["y"][i], r.py.min, r.py.max, 1),
               normalize(d["z"][i], r.pz.min, r.pz.max, 1))

packScale(d, r, i) ==
    pack111011(normalize(d["scale_0"][i], r.sx.min, r.sx.max, 1),
               normalize(d["scale_1"][i], r.sy.min, r.sy.max, 1),
               normalize(d["scale_2"][i], r.sz.min, r.sz.max, 1))

packColor(d, r, i) ==
    pack8888(normalize(d["f_dc_0"][i], r.cr.min, r.cr.max, 10),
             normalize(d["f_dc_1"][i], r.cg.min, r.cg.max, 10),
             normalize(d["f_dc_2"][i], r.cb.min, r.cb.max, 10),
             alphaUnorm(d["opacity"][i]))

\* the scratch q when the pack loop reaches slot i, from qq before the loop:
\* packRot leaves the normalised rotation of the slot before in it
RECURSIVE quatAt(_, _, _)
quatAt(chunk, qq, i) ==
    IF i = 1 THEN qq
    ELSE Quat_normalize(Quat_set(quatAt(chunk, qq, i - 1),
                                 chunk.data["rot_0"][i - 1], chunk.data["rot_1"][i - 1],
                                 chunk.data["rot_2"][i - 1], chunk.data["rot_3"][i - 1]))

\* the Chunk after the pack loop, colours converted and bounds r
packWords(chunk, r, qq) ==
    [chunk EXCEPT
        !.position = [i \in 1..ChunkSize |-> packPosition(chunk.data, r, i)],
        !.rotation = [i \in 1..ChunkSize |->
                         packRot(quatAt(chunk, qq, i),
                                 chunk.data["rot_0"][i], chunk.data["rot_1"][i],
                                 chunk.data["rot_2"][i], chunk.data["rot_3"][i])],
        !.scale = [i \in 1..ChunkSize |-> packScale(chunk.data, r, i)],
        !.color = [i \in 1..ChunkSize |-> packColor(chunk.data, r, i)]]

\* chunk.pack() when the scratch q holds qq: the Chunk afterwards
Chunk_pack(chunk, qq) == packWords(convertColors(chunk), packResult(convertColors(chunk)), qq)

----------------------------------------------------------------------------
(* serializePlyCompressed *)

\* the list of indices spanning all splats
RECURSIVE compressedIndices(_, _, _, _, _)
compressedIndices(ss, settings, e, i, indices) ==
    IF e > Len(ss) THEN indices
    ELSE IF i > numSplats(ss[e]) THEN compressedIndices(ss, settings, e + 1, 1, indices)
    ELSE IF test(settings, ss[e], i)
    THEN compressedIndices(ss, settings, e, i + 1,
             Append(indices, [splatIndex |-> e, i |-> i, globalIndex |-> Len(indices)]))
    ELSE compressedIndices(ss, settings, e, i + 1, indices)

chunkProps == <<"min_x", "min_y", "min_z", "max_x", "max_y", "max_z",
                "min_scale_x", "min_scale_y", "min_scale_z",
                "max_scale_x", "max_scale_y", "max_scale_z",
                "min_r", "min_g", "min_b", "max_r", "max_g", "max_b">>

vertexProps == <<"packed_position", "packed_rotation", "packed_scale", "packed_color">>

\* the results of chunk.pack() in the order the chunk data is written
chunkResults == <<"px.min", "py.min", "pz.min", "px.max", "py.max", "pz.max",
                  "sx.min", "sy.min", "sz.min", "sx.max", "sy.max", "sz.max",
                  "cr.min", "cg.min", "cb.min", "cr.max", "cg.max", "cb.max">>

\* the arrays of the Chunk the packed words are read from
chunkArrays == <<"position", "rotation", "scale", "color">>

\* Math.max(...splatBands)
RECURSIVE maxBands(_, _)
maxBands(ss, e) ==
    IF e > Len(ss) THEN 0
    ELSE Max(calcSHBands(getVertexProperties(ss[e])), maxBands(ss, e + 1))

outputSHBands(ss, settings) == Min(Default(settings.maxSHBands, 3), maxBands(ss, 1))

\* version of package.json
version == "2.0.0"

generatedByString == "Generated by SuperSplat " \o version

compressedHeader(numChunks, count, outputSHCoeffs) ==
    <<"ply", "format binary_little_endian 1.0", "comment " \o generatedByString,
      "element chunk " \o ToString(numChunks)>>
    \o [k \in DOMAIN chunkProps |-> "property float " \o chunkProps[k]]
    \o <<"element vertex " \o ToString(count)>>
    \o [k \in DOMAIN vertexProps |-> "property uint " \o vertexProps[k]]
    \o (IF outputSHCoeffs > 0
        THEN <<"element sh " \o ToString(count)>>
             \o [k \in 1..(outputSHCoeffs * 3) |-> "property uchar f_rest_" \o ToString(k - 1)]
        ELSE <<>>)
    \o <<"end_header", "">>

\* one store of the DataView: size bytes at `at`; what was stored, for which
\* chunk, from which gaussian (<<collection, index>>), and which coefficient
Store(at, size, what, c, src, k) ==
    [at |-> at, size |-> size, what |-> what, c |-> c, src |-> src, k |-> k]

srcOf(index) == <<index.splatIndex, index.i>>

\* the layout of `result`
chunkOffset(header) == header

\* the vertex data placed as if there were a single chunk
vertexOffsetOneChunk(header, numChunks) == header + Len(chunkProps) * 4

vertexOffset(header, numChunks) == chunkOffset(header) + numChunks * Len(chunkProps) * 4

shOffset(header, numChunks, count) ==
    vertexOffset(header, numChunks) + count * 4 * 4

\* the gaussians in chunk i of count
chunkNum(count, i) == Min(count, (i + 1) * ChunkSize) - i * ChunkSize

\* the sh stores of gaussian j of chunk i
shStores(i, j, index, coeffs, shOff) ==
    [k \in 1..(coeffs * 3) |->
        Store(shOff + (i * ChunkSize + j) * coeffs * 3 + (k - 1), 1, "sh", i, srcOf(index), k - 1)]

RECURSIVE chunkSHStores(_, _, _, _, _, _)
chunkSHStores(i, j, num, sorted, coeffs, shOff) ==
    IF j >= num THEN <<>>
    ELSE shStores(i, j, sorted[i * ChunkSize + j + 1], coeffs, shOff)
         \o chunkSHStores(i, j + 1, num, sorted, coeffs, shOff)

\* the Chunk after the set() calls of chunk i: slot j holds gaussian j of the
\* chunk, and past num a copy of the last one read
chunkSlots(slots, i, num, sorted) ==
    [j \in 1..ChunkSize |->
        IF j <= num THEN srcOf(sorted[i * ChunkSize + j])
        ELSE IF num < ChunkSize THEN srcOf(sorted[i * ChunkSize + num])
        ELSE slots[j]]

\* the 18 stores of the chunk data
boundStores(i, chunkOff) ==
    [m \in DOMAIN chunkResults |->
        Store(chunkOff + i * 18 * 4 + (m - 1) * 4, 4, chunkResults[m], i, <<0, 0>>, 0)]

\* the four stores of gaussian j of chunk i
vertexStores(i, j, slots, vertexOff) ==
    [m \in DOMAIN chunkArrays |->
        Store(vertexOff + i * ChunkSize * 4 * 4 + j * 4 * 4 + (m - 1) * 4, 4,
              chunkArrays[m], i, slots[j + 1], 0)]

RECURSIVE chunkVertexStores(_, _, _, _, _)
chunkVertexStores(i, j, num, slots, vertexOff) ==
    IF j >= num THEN <<>>
    ELSE vertexStores(i, j, slots, vertexOff) \o chunkVertexStores(i, j + 1, num, slots, vertexOff)

\* the chunk loop from chunk i
RECURSIVE compressedStores(_, _, _, _, _, _, _)

compressedChunk(i, count, sorted, coeffs, header, slots, stores) ==
    compressedStores(i + 1, count, sorted, coeffs, header, slots,
        stores
        \o chunkSHStores(i, 0, chunkNum(count, i), sorted, coeffs,
                         shOffset(header, (count + ChunkSize - 1) \div ChunkSize, count))
        \o boundStores(i, chunkOffset(header))
        \o chunkVertexStores(i, 0, chunkNum(count, i), slots,
                             vertexOffset(header, (count + ChunkSize - 1) \div ChunkSize)))

compressedStores(i, count, sorted, coeffs, header, slots, stores) ==
    IF i >= (count + ChunkSize - 1) \div ChunkSize THEN stores
    ELSE compressedChunk(i, count, sorted, coeffs, header,
                         chunkSlots(slots, i, chunkNum(count, i), sorted), stores)

\* the members the SingleSplat of the compressed encoder is built with
compressedMembers(coeffs) ==
    <<"x", "y", "z", "scale_0", "scale_1", "scale_2", "f_dc_0", "f_dc_1", "f_dc_2", "opacity",
      "rot_0", "rot_1", "rot_2", "rot_3">> \o SubSeq(shNames, 1, coeffs * 3)

\* Math.trunc on thousandths
trunc(x) ==
    IF x = NaN THEN NaN
    ELSE IF x >= 0 THEN (x \div 1000) * 1000 ELSE 0 - (((0 - x) \div 1000) * 1000)

\* Math.round on thousandths
round(x) == IF x = NaN THEN NaN ELSE ((x + 500) \div 1000) * 1000

\* nvalue * 256 for nvalue = value / 8 + 0.5, in thousandths
shScaled(value) == IF value = NaN THEN NaN ELSE value * 32 + 128000

\* the byte setUint8 stores for Math.max(0, Math.min(255, Math.trunc(nvalue * 256)))
shQuantize(value) ==
    IF value = NaN THEN setUint8(NaN)
    ELSE setUint8(Max(0, Min(255000, trunc(shScaled(value)))))

\* the sh bytes of one gaussian, from singleSplat.data after read
shBytes(data, coeffs) == [k \in 1..(coeffs * 3) |-> shQuantize(data[shNames[k]])]

\* the slots past the gaussians read are left as they are
padNone(chunk, data, j) == chunk

\* pad the end of the last chunk with duplicate data: chunk.set(j, singleSplat)
\* for j from j below the chunk size
RECURSIVE padFrom(_, _, _)
padFrom(chunk, data, j) ==
    IF j >= ChunkSize THEN chunk
    ELSE padFrom(Chunk_set(chunk, j + 1, data), data, j + 1)

\* The chunk loop as a record m: the one Chunk object, what v and q hold,
\* singleSplat.data after each read so far in output order, and what each
\* chunk packed so far handed to the stores.
chunkStart(sc) == [chunk |-> newChunk, scratch |-> sc, data |-> <<>>, done |-> <<>>]

\* singleSplat.read(splat, i) left `data`; chunk.set(j, singleSplat)
afterRead(m, j, data) ==
    [m EXCEPT !.chunk = Chunk_set(@, j + 1, data),
              !.scratch = scratchOf(@, data),
              !.data = Append(@, data)]

\* the reads of chunk i from slot j below num
RECURSIVE fillFrom(_, _, _, _, _, _, _, _)
fillFrom(m, ss, settings, sorted, coeffs, i, j, num) ==
    IF j >= num THEN m
    ELSE fillFrom(afterRead(m, j,
                      readFrom(m.scratch, compressedMembers(coeffs), settings,
                               ss[sorted[i * ChunkSize + j + 1].splatIndex],
                               sorted[i * ChunkSize + j + 1].i)),
                  ss, settings, sorted, coeffs, i, j + 1, num)

\* the loop when chunk.pack() is called for a chunk of num gaussians
chunkFilled(m, num) ==
    IF num < ChunkSize
    THEN [m EXCEPT !.chunk = padFrom(@, m.data[Len(m.data)], num)]
    ELSE m

\* what a chunk hands to the stores: the Chunk as pack() found it, the bounds
\* pack() returned and the Chunk it left
chunkPacked(filled, qq) ==
    [slots |-> filled.data,
     bounds |-> packResult(convertColors(filled)),
     packed |-> Chunk_pack(filled, qq)]

\* the loop after chunk.pack()
afterPack(m) ==
    [m EXCEPT !.chunk = Chunk_pack(@, m.scratch.q),
              !.scratch.q = quatAt(m.chunk, @, ChunkSize + 1),
              !.done = Append(@, chunkPacked(m.chunk, m.scratch.q))]

\* the chunk loop from chunk i
RECURSIVE chunkLoop(_, _, _, _, _, _)
chunkLoop(m, ss, settings, sorted, coeffs, i) ==
    IF i >= (Len(sorted) + ChunkSize - 1) \div ChunkSize THEN m
    ELSE chunkLoop(afterPack(chunkFilled(fillFrom(m, ss, settings, sorted, coeffs, i, 0,
                                                  chunkNum(Len(sorted), i)),
                                         chunkNum(Len(sorted), i))),
                   ss, settings, sorted, coeffs, i + 1)

\* the chunk loop of a call that finds sc in v and q
compressedRun(sc, ss, settings, sorted, coeffs) ==
    chunkLoop(chunkStart(sc), ss, settings, sorted, coeffs, 0)

\* the sh bytes of every gaussian in output order
shValues(run, coeffs) == [n \in DOMAIN run.data |-> shBytes(run.data[n], coeffs)]

\* new Uint8Array(header + chunks + vertices + sh).byteLength
resultBytes(header, numChunks, count, coeffs) ==
    header + numChunks * Len(chunkProps) * 4 + count * Len(vertexProps) * 4
    + coeffs * 3 * count

\* `result` as handed to the writer: result.set(header) and every store
compressedResult(ss, indices, headerText, coeffs) ==
    Buffer("compressed",
           resultBytes(byteLength(headerText), (Len(indices) + ChunkSize - 1) \div ChunkSize,
                       Len(indices), coeffs),
           TRUE, headerText,
           <<Store(0, byteLength(headerText), "header", 0, <<0, 0>>, 0)>>
           \o compressedStores(0, Len(indices), sortSplats(ss, indices), coeffs,
                               byteLength(headerText),
                               [j \in 1..ChunkSize |-> <<0, 0>>], <<>>))

\* `result` with the values its stores hold
withValues(b, run, coeffs) == b @@ [sh |-> shValues(run, coeffs), chunks |-> run.done]

\* a store outside the buffer makes the DataView throw a RangeError
fits(b) == \A k \in DOMAIN b.fields : b.fields[k].at + b.fields[k].size <= b.bytes

compressedWrite(b, indices, single, sc) ==
    IF fits(b)
    THEN /\ write(b, "compressed_write")
         /\ loc' = [indices |-> indices, singleSplat |-> single]
         /\ scratch' = sc
         /\ UNCHANGED error
    ELSE /\ pc' = "failed"
         /\ error' = "RangeError"
         /\ loc' = [indices |-> indices, singleSplat |-> single]
         /\ scratch' = sc
         /\ UNCHANGED <<inflight, issued, awaited>>

\* the chunk loop has run: the buffer is handed to the writer
compressedBuilt(ss, settings, indices, coeffs, run) ==
    compressedWrite(
        withValues(compressedResult(ss, indices,
                       compressedHeader((Len(indices) + ChunkSize - 1) \div ChunkSize,
                                        Len(indices), coeffs),
                       coeffs),
                   run, coeffs),
        sortSplats(ss, indices),
        readAll(newSingleSplat, compressedMembers(coeffs), settings, ss,
                sortSplats(ss, indices), 1),
        run.scratch)

\* the buffer is built and handed to the writer, or there is nothing to export
compressedBegin(ss, settings, indices, coeffs) ==
    IF Len(indices) = 0
    THEN /\ pc' = "done"
         /\ UNCHANGED <<inflight, issued, awaited, loc, error, scratch>>
    ELSE compressedBuilt(ss, settings, indices, coeffs,
                         compressedRun(scratch, ss, settings, sortSplats(ss, indices), coeffs))

\* from the call to the await of the only write
serializePlyCompressed_start ==
    /\ op = "compressed" /\ pc = "start"
    /\ compressedBegin(splats, serializeSettings,
                       compressedIndices(splats, serializeSettings, 1, 1, <<>>),
                       shBandCoeffs[outputSHBands(splats, serializeSettings) + 1])
    /\ UNCHANGED <<op, splats, serializeSettings, options, written, sinkError, peer>>

\* after the write
serializePlyCompressed_end ==
    /\ op = "compressed" /\ pc = "compressed_write"
    /\ resolved
    /\ pc' = "done"
    /\ UNCHANGED <<op, splats, serializeSettings, options, error, inflight, written, issued, awaited, sinkError, loc, scratch, peer>>

----------------------------------------------------------------------------
(* serializeViewer *)

\* plyWriter.close() after serializePlyCompressed wrote into the BufferWriter:
\* the one buffer it was given, or nothing when no gaussian passes the filter
plyBufferOf(ss, indices, coeffs) ==
    IF Len(indices) = 0 THEN Buffer("compressed", 0, TRUE, <<>>, <<>>)
    ELSE compressedResult(ss, indices,
             compressedHeader((Len(indices) + ChunkSize - 1) \div ChunkSize, Len(indices), coeffs),
             coeffs)

plyBuffer(ss, settings) ==
    plyBufferOf(ss, compressedIndices(ss, settings, 1, 1, <<>>),
                shBandCoeffs[outputSHBands(ss, settings) + 1])

\* v and q after the serializePlyCompressed call of serializeViewer
viewerScratch(sc, ss, settings, indices) ==
    IF Len(indices) = 0 THEN sc
    ELSE compressedRun(sc, ss, settings, sortSplats(ss, indices),
                       shBandCoeffs[outputSHBands(ss, settings) + 1]).scratch

\* window.btoa: four characters for every three bytes
encodeBase64(bytes) == 4 * ((bytes + 2) \div 3)

\* the scene added to the archive before the static files
zipEntriesSceneFirst == <<"scene.compressed.ply", "index.html", "index.css", "index.js", "settings.json">>

\* the entries of the archive in the order they are added
zipEntries == <<"index.html", "index.css", "index.js", "settings.json", "scene.compressed.ply">>

\* zipWriter.file(name, data): the entry goes to the underlying writer
zipFile(k, ply) ==
    Buffer("zip:" \o zipEntries[k], IF k = Len(zipEntries) THEN ply.bytes ELSE 0, FALSE, <<>>,
           IF k = Len(zipEntries) THEN ply.fields ELSE <<>>)

\* from the call to the await of the document, or of the first archive entry
serializeViewer_start ==
    /\ op = "viewer" /\ pc = "start"
    /\ IF options.type = "html"
       THEN write(Buffer("html", encodeBase64(plyBuffer(splats, serializeSettings).bytes), TRUE,
                         <<>>, plyBuffer(splats, serializeSettings).fields), "viewer_html")
       ELSE write(zipFile(1, plyBuffer(splats, serializeSettings)), "viewer_file")
    /\ loc' = [entry |-> 1]
    /\ scratch' = viewerScratch(scratch, splats, serializeSettings,
                                compressedIndices(splats, serializeSettings, 1, 1, <<>>))
    /\ UNCHANGED <<op, splats, serializeSettings, options, error, written, sinkError, peer>>

\* after an archive entry: the next entry, or zipWriter.close()
serializeViewer_file ==
    /\ op = "viewer" /\ pc = "viewer_file"
    /\ resolved
    /\ IF loc.entry < Len(zipEntries)
       THEN /\ write(zipFile(loc.entry + 1, plyBuffer(splats, serializeSettings)), "viewer_file")
            /\ loc' = [entry |-> loc.entry + 1]
       ELSE /\ write(Buffer("zip:close", 0, TRUE, <<>>, <<>>), "viewer_close")
            /\ UNCHANGED loc
    /\ UNCHANGED <<op, splats, serializeSettings, options, error, written, sinkError, scratch, peer>>

\* after the document, or after zipWriter.close()
serializeViewer_end ==
    /\ op = "viewer" /\ pc \in {"viewer_html", "viewer_close"}
    /\ resolved
    /\ pc' = "done"
    /\ UNCHANGED <<op, splats, serializeSettings, options, error, inflight, written, issued, awaited, sinkError, loc, scratch, peer>>

----------------------------------------------------------------------------
(* The calls the model makes *)

Prop(name, type) == [name |-> name, type |-> type, storage |-> TRUE]

coreProps == <<Prop("x", "float"), Prop("opacity", "float"), Prop("state", "uchar"),
               Prop("transform", "uchar")>>

\* vertex property lists: the core alone, and the core with one more property
PropLayouts ==
    { coreProps,
      coreProps \o <<Prop("a", "float")>>,
      coreProps \o <<Prop("b", "float")>>,
      coreProps \o <<Prop("a", "short")>>,
      coreProps \o <<Prop("d", "double")>>,
      coreProps \o <<[name |-> "tmp", type |-> "float", storage |-> FALSE]>> }

\* the gaussians of the filter cases: plain, selected, deleted, nearly
\* transparent, and one whose opacity is NaN
Kinds ==
    { [state |-> 0, opacity |-> 1],
      [state |-> State_selected, opacity |-> 1],
      [state |-> State_deleted, opacity |-> 1],
      [state |-> 0, opacity |-> 0 - 1],
      [state |-> 0, opacity |-> NaN] }

plain == [state |-> 0, opacity |-> 1]

\* a collection with the given property list and one gaussian per element of kinds
mkSplat(props, kinds, world) ==
    [props |-> props,
     data |-> [k \in DOMAIN kinds |->
                  [n \in {p.name : p \in Range(SelectSeq(props, LAMBDA p : p.storage))} |->
                      IF n \in DOMAIN kinds[k] THEN kinds[k][n] ELSE 0]],
     centers |-> [k \in DOMAIN kinds |->
                     IF "center" \in DOMAIN kinds[k] THEN kinds[k].center ELSE <<0, 0, 0>>],
     world |-> world]

defaultSettings ==
    [maxSHBands |-> Undefined, selected |-> FALSE, minOpacity |-> 0, removeInvalid |-> FALSE,
     keepStateData |-> FALSE, keepWorldTransform |-> FALSE, keepColorTint |-> FALSE]

\* the filter settings: minOpacity 0.731 is sigmoid(1) exactly
FilterSettings ==
    { [defaultSettings EXCEPT !.selected = s, !.minOpacity = m, !.removeInvalid = r] :
        s \in BOOLEAN, m \in {0, 731}, r \in BOOLEAN }

KindSeqs(n) == UNION {[1..k -> Kinds] : k \in 0..n}

\* the ways to cut a sequence in two
Cuts(ks) == {<<SubSeq(ks, 1, n), SubSeq(ks, n + 1, Len(ks))>> : n \in 0..Len(ks)}

\* one or two core collections holding at most MaxSplats gaussians together
FilterSplats(n) ==
    { <<mkSplat(coreProps, ks, "I")>> : ks \in KindSeqs(n) }
    \cup UNION { { <<mkSplat(coreProps, c[1], "I"), mkSplat(coreProps, c[2], "I")>> : c \in Cuts(ks) } :
                    ks \in KindSeqs(n) }

total(ss) == SumSeq([e \in DOMAIN ss |-> numSplats(ss[e])])

\* one or two collections of plain gaussians, over every pair of property lists
LayoutSplats(n) ==
    { <<mkSplat(l, [k \in 1..m |-> plain], "I")>> : l \in PropLayouts, m \in 0..n }
    \cup UNION { { <<mkSplat(l1, [k \in 1..n1 |-> plain], "I"), mkSplat(l2, [k \in 1..n2 |-> plain], "I")>> :
                      l1 \in PropLayouts, l2 \in PropLayouts, n2 \in 0..(n - n1) } :
                    n1 \in 0..n }

\* the example of the specification: four gaussians, one deleted, one nearly transparent
ExampleSplats ==
    { <<mkSplat(coreProps, ks, "I")>> :
        ks \in { f \in [1..4 -> Kinds] :
                   /\ Cardinality({k \in 1..4 : f[k].state = State_deleted}) = 1
                   /\ Cardinality({k \in 1..4 : f[k].opacity = 0 - 1}) = 1
                   /\ \A k \in 1..4 : f[k].opacity # NaN /\ f[k].state # State_selected } }

noOptions == [type |-> "none"]

Call(o, ss, settings) == [op |-> o, splats |-> ss, settings |-> settings, options |-> noOptions]

PlyCalls(n) ==
    { Call("ply", ss, st) : ss \in FilterSplats(n), st \in FilterSettings }
    \cup { Call("ply", ss, [defaultSettings EXCEPT !.keepStateData = k]) :
             ss \in LayoutSplats(n), k \in BOOLEAN }
    \cup { Call("ply", ss, [defaultSettings EXCEPT !.minOpacity = m]) :
             ss \in ExampleSplats, m \in {0, 731} }

\* property lists of the compressed and the minimal encoder's collections
fullProps ==
    [k \in 1..16 |-> Prop(<<"x", "y", "z", "opacity", "rot_0", "rot_1", "rot_2", "rot_3",
                            "f_dc_0", "f_dc_1", "f_dc_2", "scale_0", "scale_1", "scale_2",
                            "state", "transform">>[k],
                          IF k <= 14 THEN "float" ELSE "uchar")]

\* gaussians with colours, opacities and rotations on both sides of the byte range
SplatKinds ==
    { [state |-> 0, opacity |-> 1, x |-> 1, y |-> 2, z |-> 3, rot_0 |-> 1],
      [state |-> 0, opacity |-> NaN, rot_3 |-> 2, f_dc_0 |-> 3000, f_dc_1 |-> 0 - 3000],
      [state |-> State_selected, opacity |-> 0 - 1, x |-> 0 - 1, rot_0 |-> 0 - 1, rot_1 |-> 1,
       f_dc_0 |-> 1000, f_dc_2 |-> 0 - 1000, scale_0 |-> 1],
      [state |-> State_deleted, opacity |-> 1, rot_0 |-> 1] }

SplatKindSeqs(n) == UNION {[1..k -> SplatKinds] : k \in 0..n}

Worlds == {"I", "Rz180"}

FullSplats(n) ==
    { <<mkSplat(fullProps, ks, w)>> : ks \in SplatKindSeqs(n), w \in Worlds }
    \cup UNION { { <<mkSplat(fullProps, c[1], w), mkSplat(fullProps, c[2], "I")>> :
                      c \in Cuts(ks), w \in Worlds } :
                    ks \in SplatKindSeqs(n) }

SplatCalls(n) ==
    { Call("splat", ss, [defaultSettings EXCEPT !.selected = s, !.keepWorldTransform = k]) :
        ss \in FullSplats(n), s \in BOOLEAN, k \in BOOLEAN }

\* gaussians of the sort cases: three sort centres, selected or not, and a deleted one
SortKinds ==
    { [state |-> st, opacity |-> 1, center |-> c] :
        st \in {0, State_selected}, c \in {<<0, 0, 0>>, <<1, 0, 0>>, <<0, 2, 0>>} }
    \cup { [state |-> State_deleted, opacity |-> 1, center |-> <<0, 0, 0>>] }

SortKindSeqs(n) == UNION {[1..k -> SortKinds] : k \in 0..n}

SortSplats(n) ==
    { <<mkSplat(fullProps, ks, "I")>> : ks \in SortKindSeqs(n) }
    \cup UNION { { <<mkSplat(fullProps, c[1], "I"), mkSplat(fullProps, c[2], "I")>> : c \in Cuts(ks) } :
                    ks \in SortKindSeqs(n) }

\* the core properties and the nine coefficients of the first band
shProps ==
    fullProps \o [k \in 1..9 |-> Prop(shNames[k], "float")]

\* gaussians at two sort centres, and a deleted one
BandKinds ==
    { [state |-> 0, opacity |-> 1, center |-> c] : c \in {<<0, 0, 0>>, <<1, 0, 0>>} }
    \cup { [state |-> State_deleted, opacity |-> 1, center |-> <<2, 0, 0>>] }

BandSplats(n) ==
    { <<mkSplat(l, ks, "I")>> :
        l \in {fullProps, shProps}, ks \in UNION {[1..k -> BandKinds] : k \in 0..n} }
    \cup { <<mkSplat(shProps, <<k1>>, "I"), mkSplat(l, <<k2>>, "I")>> :
             l \in {fullProps, shProps}, k1 \in BandKinds, k2 \in BandKinds }

CompressedCalls(n) ==
    { Call("compressed", ss, [defaultSettings EXCEPT !.selected = sel]) :
        ss \in SortSplats(n), sel \in BOOLEAN }

LayoutCalls(n) ==
    { Call("compressed", ss, [defaultSettings EXCEPT !.maxSHBands = m]) :
        ss \in BandSplats(n), m \in {Undefined, 0, 1} }

\* the core properties and the first n names of shNames
shLayout(n) == fullProps \o [k \in 1..n |-> Prop(shNames[k], "float")]

\* a gaussian whose coefficients rise with their index, and one whose
\* coefficients lie on both sides of the byte range (thousandths)
SHKinds ==
    { plain @@ [name \in Range(shNames) |-> 20 + 90 * (shIndex(name) - 20)],
      plain @@ [name \in Range(shNames) |-> IF shIndex(name) % 2 = 0 THEN 5000 ELSE 0 - 5000] }

\* one collection storing f_rest_0 .. f_rest_{m-1} for every m, and two
\* collections with whole bands each
SHSplats(n) ==
    { <<mkSplat(shLayout(m), [k \in 1..c |-> CHOOSE g \in SHKinds : g["f_rest_20"] = 20], "I")>> :
        m \in 0..45, c \in 1..n }
    \cup { <<mkSplat(shLayout(m1), <<k1>>, w), mkSplat(shLayout(m2), <<k2>>, "I")>> :
             m1 \in {0, 9, 24, 45}, m2 \in {0, 9, 24, 45}, k1 \in SHKinds, k2 \in SHKinds,
             w \in Worlds }

SHCalls(n) ==
    { Call("compressed", ss, [defaultSettings EXCEPT !.maxSHBands = m]) :
        ss \in SHSplats(n), m \in {Undefined, 0, 1, 2, 3} }

\* gaussians of the chunk cases: log-scales on both sides of [-20, 20],
\* colours, opacities and rotations that differ from one gaussian to the next
ChunkKinds ==
    { [state |-> 0, opacity |-> 1, x |-> 1, y |-> 2, z |-> 3,
       scale_0 |-> 25, scale_1 |-> 0 - 30, scale_2 |-> 1,
       f_dc_0 |-> 1000, f_dc_1 |-> 0 - 1000, rot_0 |-> 1],
      [state |-> 0, opacity |-> 0 - 1, x |-> 0 - 2, y |-> 2, z |-> 5,
       f_dc_0 |-> 3000, f_dc_2 |-> 200, rot_1 |-> 1, rot_2 |-> 1],
      [state |-> 0, opacity |-> 2, x |-> 4, y |-> 4, z |-> 4,
       scale_0 |-> 0 - 25, scale_1 |-> 3, scale_2 |-> 0 - 2,
       f_dc_0 |-> 500, f_dc_1 |-> 700, f_dc_2 |-> 0 - 2000,
       rot_0 |-> 0 - 2, rot_1 |-> 1, rot_3 |-> 1],
      [state |-> 0, opacity |-> 0, y |-> 7, scale_0 |-> 21, scale_2 |-> 22, rot_3 |-> 0 - 1] }

\* a gaussian with the given rotation
rotKind(qt) ==
    [state |-> 0, opacity |-> 1, rot_0 |-> qt[1], rot_1 |-> qt[2], rot_2 |-> qt[3], rot_3 |-> qt[4]]

\* one collection of up to n gaussians of the chunk cases
ChunkSplats(n) ==
    { <<mkSplat(fullProps, ks, "I")>> : ks \in UNION {[1..k -> ChunkKinds] : k \in 0..n} }

ChunkCalls(n) ==
    { Call("compressed", ss, [defaultSettings EXCEPT !.keepWorldTransform = k]) :
        ss \in ChunkSplats(n), k \in BOOLEAN }

\* the components of the rotation cases
RotRange == (0 - 2)..2

\* one gaussian for every rotation with components in RotRange, alone and
\* followed by n - 1 gaussians turned a quarter about x
RotSplats(n) ==
    { <<mkSplat(fullProps, <<rotKind(qt)>> \o [k \in 1..c |-> rotKind(<<1, 1, 0, 0>>)], "I")>> :
        qt \in [1..4 -> RotRange], c \in {0, n - 1} }

RotCalls(n) ==
    { Call("compressed", ss, [defaultSettings EXCEPT !.keepWorldTransform = k]) :
        ss \in RotSplats(n), k \in BOOLEAN }

\* the palette of the cache cases, and the palette indices of its gaussians
Palette == <<"Rz180", "I">>

PaletteIndices == 0..Len(Palette)

\* a collection with a transform index array and the palette
withIndices(splat, indices) == splat @@ [indices |-> indices, palette |-> Palette]

\* a collection of k gaussians at every other place along x from x0, with
\* every transform index array, and without one
CacheCollections(l, k, x0) ==
    { mkSplat(l, [g \in 1..k |-> plain @@ [x |-> g, center |-> <<x0 + 2 * g, 0, 0>>]], "I") }
    \cup { withIndices(mkSplat(l, [g \in 1..k |-> plain @@ [x |-> g, center |-> <<x0 + 2 * g, 0, 0>>]],
                               "I"), idx) :
             idx \in [1..k -> PaletteIndices] }

\* one collection, and two whose gaussians alternate in Morton order
CacheSplats(n) ==
    UNION { { <<a>> : a \in CacheCollections(l, k, 0) } : l \in {fullProps, shProps}, k \in 1..n }
    \cup UNION { { <<a, b>> : a \in CacheCollections(l, k1, 0), b \in CacheCollections(l, n - 1 - k1, 1) } :
                    l \in {fullProps, shProps}, k1 \in 1..(n - 2) }
    \cup UNION { { <<a, b>> : a \in CacheCollections(l, k1, 0), b \in CacheCollections(l, n - k1, 1) } :
                    l \in {fullProps, shProps}, k1 \in 1..(n - 1) }

CacheCalls(n) ==
    { Call("compressed", ss, [defaultSettings EXCEPT !.keepWorldTransform = k]) :
        ss \in CacheSplats(n), k \in BOOLEAN }

\* the colour parameters of the tint cases, in tenths: the values hasTint
\* compares with, and each parameter away from its value in turn
TintCases ==
    { untinted,
      [untinted EXCEPT !.tintClr = <<5, 10, 10>>],
      [untinted EXCEPT !.temperature = 5],
      [untinted EXCEPT !.saturation = 5],
      [untinted EXCEPT !.brightness = 0],
      [untinted EXCEPT !.blackPoint = 5],
      [untinted EXCEPT !.whitePoint = 20] }

\* gaussians of the tint cases: base colours and first-band coefficients
\* that differ from one channel to the next
TintKinds ==
    { [state |-> 0, opacity |-> 1, f_dc_0 |-> 0, f_dc_1 |-> 1000, f_dc_2 |-> 0 - 1000,
       f_rest_0 |-> 100, f_rest_3 |-> 200, f_rest_6 |-> 0 - 300],
      [state |-> 0, opacity |-> 1, f_dc_0 |-> 500, f_dc_1 |-> 500, f_dc_2 |-> 500,
       f_rest_1 |-> 1000, f_rest_4 |-> 1000, f_rest_7 |-> 1000] }

\* a collection with the given colour parameters
withTint(splat, t) == splat @@ [tint |-> t]

\* one collection with a band of coefficients, for every case of its parameters
TintSplats(n) ==
    { <<withTint(mkSplat(shProps, ks, "I"), t)>> :
        ks \in UNION {[1..k -> TintKinds] : k \in 0..n}, t \in TintCases }

TintCalls(n) ==
    { Call("ply", ss, [defaultSettings EXCEPT !.keepColorTint = k]) :
        ss \in TintSplats(n), k \in BOOLEAN }

\* gaussians of the two-call cases: positions and rotations that differ from
\* one gaussian to the next
PairKinds ==
    << [state |-> 0, opacity |-> 1, x |-> 1, y |-> 2, z |-> 3, rot_0 |-> 1],
       [state |-> State_selected, opacity |-> 0 - 1, x |-> 0 - 1, rot_0 |-> 0 - 1, rot_1 |-> 1,
        f_dc_0 |-> 1000, scale_0 |-> 1],
       [state |-> State_selected, opacity |-> 1, x |-> 4, y |-> 4, rot_3 |-> 2, scale_1 |-> 0 - 1] >>

\* k gaussians taken in turn from PairKinds, beginning with the one after s
pairSplat(s, k, w) ==
    mkSplat(fullProps, [g \in 1..k |-> PairKinds[((s + g - 1) % Len(PairKinds)) + 1]], w)

\* the first call: serializePly on more gaussians than a row block holds
PairFirst(n) ==
    { Call("ply", <<pairSplat(0, n, w)>>, [defaultSettings EXCEPT !.selected = sel]) :
        w \in Worlds, sel \in BOOLEAN }

\* the second call: any encoder on another collection
PairSecond(n) ==
    { Call(o, <<pairSplat(1, k, w)>>, defaultSettings) :
        o \in {"ply", "splat", "compressed"}, k \in 1..(n - 1), w \in Worlds }

\* the gaussians of the driver cases: kept or deleted
DriverKinds == { plain, [state |-> State_deleted, opacity |-> 1] }

DriverSplats(n) ==
    { <<mkSplat(fullProps, ks, "I")>> : ks \in UNION {[1..k -> DriverKinds] : k \in 0..n} }
    \cup UNION { { <<mkSplat(fullProps, c[1], "I"), mkSplat(fullProps, c[2], "I")>> : c \in Cuts(ks) } :
                    ks \in UNION {[1..k -> DriverKinds] : k \in 0..n} }

\* every exported function over the driver cases
Calls(n) ==
    { Call(o, ss, defaultSettings) :
        o \in {"ply", "compressed", "splat"}, ss \in DriverSplats(n) }
    \cup { [op |-> "viewer", splats |-> ss, settings |-> defaultSettings, options |-> [type |-> t]] :
             ss \in DriverSplats(n), t \in {"html", "zip"} }

\* no second call
NoCall == [op |-> "none"]

\* a call c that has not begun, with the writer it was given
called(c) ==
    [op |-> c.op, splats |-> c.splats, serializeSettings |-> c.settings, options |-> c.options,
     pc |-> "start", error |-> "none", inflight |-> <<>>, written |-> <<>>, issued |-> <<>>,
     awaited |-> "none", sinkError |-> "none", loc |-> [props |-> <<>>]]

\* the call the variables hold
running ==
    [op |-> op, splats |-> splats, serializeSettings |-> serializeSettings, options |-> options,
     pc |-> pc, error |-> error, inflight |-> inflight, written |-> written, issued |-> issued,
     awaited |-> awaited, sinkError |-> sinkError, loc |-> loc]

\* the variables hold call c
resumed(c) ==
    /\ op' = c.op
    /\ splats' = c.splats
    /\ serializeSettings' = c.serializeSettings
    /\ options' = c.options
    /\ pc' = c.pc
    /\ error' = c.error
    /\ inflight' = c.inflight
    /\ written' = c.written
    /\ issued' = c.issued
    /\ awaited' = c.awaited
    /\ sinkError' = c.sinkError
    /\ loc' = c.loc

\* The event loop turns to the other call. Every action is a whole run of a
\* function from one await to the next, so the call left is at an await, not
\* yet begun or over; v and q stay as it left them.
Switch ==
    /\ peer # NoCall
    /\ resumed(peer)
    /\ peer' = running
    /\ UNCHANGED scratch

\* the state at the call of an exported function
InitOf(calls) ==
    /\ \E c \in calls :
        /\ op = c.op
        /\ splats = c.splats
        /\ serializeSettings = c.settings
        /\ options = c.options
    /\ pc = "start"
    /\ error = "none"
    /\ inflight = <<>>
    /\ written = <<>>
    /\ issued = <<>>
    /\ awaited = "none"
    /\ sinkError = "none"
    /\ loc = [props |-> <<>>]
    /\ scratch = newScratch
    /\ peer = NoCall

\* the state when two exported functions are called one after the other
\* before either has run
InitOfPair(calls, others) ==
    /\ \E c \in calls :
        /\ op = c.op
        /\ splats = c.splats
        /\ serializeSettings = c.settings
        /\ options = c.options
    /\ pc = "start"
    /\ error = "none"
    /\ inflight = <<>>
    /\ written = <<>>
    /\ issued = <<>>
    /\ awaited = "none"
    /\ sinkError = "none"
    /\ loc = [props |-> <<>>]
    /\ scratch = newScratch
    /\ peer \in { called(c) : c \in others }

Init == InitOf(Calls(MaxSplats))

Next ==
    \/ serializePly_start
    \/ serializePly_rows
    \/ serializePly_end
    \/ serializePlyCompressed_start
    \/ serializePlyCompressed_end
    \/ serializeSplat_start
    \/ serializeSplat_end
    \/ serializeViewer_start
    \/ serializeViewer_file
    \/ serializeViewer_end
    \/ WriterAccept
    \/ WriterFail
    \/ Rejected

\* every exported function, over the driver cases
Spec == Init /\ [][Next]_vars

InitPly == InitOf(PlyCalls(MaxSplats))

NextPly ==
    \/ serializePly_start
    \/ serializePly_rows
    \/ serializePly_end
    \/ WriterAccept
    \/ WriterFail
    \/ Rejected

\* serializePly over the filter, property-list and example cases
SpecPly == InitPly /\ [][NextPly]_vars

InitCompressed == InitOf(CompressedCalls(MaxSplats))

NextCompressed ==
    \/ serializePlyCompressed_start
    \/ serializePlyCompressed_end
    \/ WriterAccept
    \/ WriterFail
    \/ Rejected

\* serializePlyCompressed over the sort cases
SpecCompressed == InitCompressed /\ [][NextCompressed]_vars

InitLayout == InitOf(LayoutCalls(MaxSplats))

\* serializePlyCompressed over the band cases
SpecLayout == InitLayout /\ [][NextCompressed]_vars

InitSH == InitOf(SHCalls(MaxSplats))

\* serializePlyCompressed over the spherical-harmonic cases
SpecSH == InitSH /\ [][NextCompressed]_vars

InitChunk == InitOf(ChunkCalls(MaxSplats))

\* serializePlyCompressed over the chunk cases
SpecChunk == InitChunk /\ [][NextCompressed]_vars

InitCache == InitOf(CacheCalls(MaxSplats))

\* serializePlyCompressed over the cache cases
SpecCache == InitCache /\ [][NextCompressed]_vars

InitRot == InitOf(RotCalls(MaxSplats))

\* serializePlyCompressed over the rotation cases
SpecRot == InitRot /\ [][NextCompressed]_vars

InitSplat == InitOf(SplatCalls(MaxSplats))

NextSplat ==
    \/ serializeSplat_start
    \/ serializeSplat_end
    \/ WriterAccept
    \/ WriterFail
    \/ Rejected

\* serializeSplat over the value cases
SpecSplat == InitSplat /\ [][NextSplat]_vars

InitTint == InitOf(TintCalls(MaxSplats))

\* serializePly over the tint cases
SpecTint == InitTint /\ [][NextPly]_vars

InitPair == InitOfPair(PairFirst(MaxSplats), PairSecond(MaxSplats))

NextPair ==
    \/ serializePly_start
    \/ serializePly_rows
    \/ serializePly_end
    \/ serializePlyCompressed_start
    \/ serializePlyCompressed_end
    \/ serializeSplat_start
    \/ serializeSplat_end
    \/ WriterAccept
    \/ Switch

\* two calls in flight at once, each with a sink that accepts its writes
SpecPair == InitPair /\ [][NextPair]_vars

----------------------------------------------------------------------------
(* Properties *)

\* the <<collection, index>> pairs of the call that pass the filter
Passing ==
    {q \in UNION {{<<e, i>> : i \in 1..numSplats(splats[e])} : e \in DOMAIN splats} :
        test(serializeSettings, splats[q[1]], q[2])}

\* collection order, then ascending index
Before(a, b) == a[1] < b[1] \/ (a[1] = b[1] /\ a[2] < b[2])

\* r lists the pairs of S once each, in collection order and ascending index
Lists(r, S) ==
    /\ Range(r) = S
    /\ \A a \in DOMAIN r, b \in DOMAIN r : a < b => Before(r[a], r[b])

\* the rows of a sequence of buffers: the gaussian of every field holding `first`
RECURSIVE rowsOf(_, _)
rowsOf(bufs, first) ==
    IF bufs = <<>> THEN <<>>
    ELSE [k \in DOMAIN SelectSeq(Head(bufs).fields, LAMBDA f : f.name = first) |->
             <<SelectSeq(Head(bufs).fields, LAMBDA f : f.name = first)[k].e,
               SelectSeq(Head(bufs).fields, LAMBDA f : f.name = first)[k].i>>]
         \o rowsOf(Tail(bufs), first)

\* the row blocks among the buffers handed to the writer
blocks(bufs) == SelectSeq(bufs, LAMBDA b : b.kind = "block")

\* serializePly has returned or thrown and the sink failed no write
plyEnded == op = "ply" /\ pc \in {"done", "failed"} /\ sinkError = "none"

\* C1: with at least one survivor, serializePly declares `element vertex N`,
\* N being countGaussians and the number of pairs passing the filter, and writes
\* exactly one row per passing pair, in collection order and ascending index.
C1_RowsWritten ==
    (plyEnded /\ Passing # {}) =>
        /\ countGaussians(splats, serializeSettings) = Cardinality(Passing)
        /\ issued # <<>>
        /\ issued[1].lines[3] = "element vertex " \o ToString(Cardinality(Passing))
        /\ Lists(rowsOf(blocks(issued), loc.props[1].name), Passing)

\* the filter as the specification words it
Passes(settings, splat, i) ==
    /\ BitAnd(getProp(splat, "state", i), State_deleted) = 0
    /\ settings.selected => getProp(splat, "state", i) = State_selected
    /\ settings.minOpacity > 0 => ~Less(sigmoid(getProp(splat, "opacity", i)), settings.minOpacity)
    /\ settings.removeInvalid =>
           \A q \in Range(splat.props) : q.storage => isFinite(getProp(splat, q.name, i))

\* one collection of four gaussians, one deleted and one other below minOpacity,
\* exported with the other settings at their defaults
IsExample ==
    /\ Len(splats) = 1 /\ numSplats(splats[1]) = 4
    /\ serializeSettings.minOpacity > 0
    /\ ~serializeSettings.selected /\ ~serializeSettings.removeInvalid
    /\ Cardinality({i \in 1..4 : getProp(splats[1], "state", i) = State_deleted}) = 1
    /\ Cardinality({i \in 1..4 : /\ getProp(splats[1], "state", i) # State_deleted
                                 /\ Less(sigmoid(getProp(splats[1], "opacity", i)),
                                         serializeSettings.minOpacity)}) = 1

SharedNames ==
    {n \in UNION {getVertexProperties(splats[e]) : e \in DOMAIN splats} :
        /\ \A e \in DOMAIN splats : n \in getVertexProperties(splats[e])
        /\ Cardinality(typesOf(splats, n)) = 1}

\* the property lines of the header handed to the writer
headerProperties == {issued[1].lines[k] : k \in 4..(Len(issued[1].lines) - 2)}

\* C3: the properties serializePly exports are the names stored by every input
\* collection with one declared type throughout (without the internal ones and
\* the coefficients beyond the requested bands): a property only some of the
\* collections store is never exported.
C3_CommonProps ==
    (op = "ply" /\ issued # <<>>) =>
        headerProperties =
            {"property " \o (CHOOSE t \in typesOf(splats, n) : TRUE) \o " " \o n :
                n \in {m \in SharedNames :
                          /\ m \notin internalProps(serializeSettings)
                          /\ m \in Range(shNames) => shIndex(m) < shLimit(serializeSettings)}}

\* the sort centre of an entry of the index list
centerOf(index) == splats[index.splatIndex].centers[index.i]

\* the Morton code of an entry's own centre within the box of the centres of `list`
ownCode(index, list) == mortonOf(centerOf(index), [k \in DOMAIN list |-> centerOf(list[k])])

\* C4: whatever the filter, after sortSplats the index list is a permutation of
\* the survivors, in non-decreasing Morton code of each survivor's own sort
\* centre within the box of the survivors' centres, equal codes in original order.
C4_MortonOrder ==
    (op = "compressed" /\ pc # "start" /\ Passing # {}) =>
        /\ {srcOf(loc.indices[k]) : k \in DOMAIN loc.indices} = Passing
        /\ Len(loc.indices) = Cardinality(Passing)
        /\ \A a \in DOMAIN loc.indices, b \in DOMAIN loc.indices :
               a < b =>
                   \/ ownCode(loc.indices[a], loc.indices) < ownCode(loc.indices[b], loc.indices)
                   \/ /\ ownCode(loc.indices[a], loc.indices) = ownCode(loc.indices[b], loc.indices)
                      /\ Before(srcOf(loc.indices[a]), srcOf(loc.indices[b]))

\* the declared type of the exported property `name`
declaredType(name) == (CHOOSE q \in Range(loc.props) : q.name = name).type

\* the fields of one block lie in header order, each with the size of its declared type
declaredLayout(b) ==
    \A k \in DOMAIN b.fields :
        /\ b.fields[k].name = loc.props[((k - 1) % Len(loc.props)) + 1].name
        /\ b.fields[k].size = DataTypeSize(declaredType(b.fields[k].name))
        /\ b.fields[k].at = SumSeq([j \in 1..(k - 1) |-> DataTypeSize(declaredType(b.fields[j].name))])

\* C5: every property of the uncompressed header is declared uchar or float, the
\* fields of every row lie in header order with the size of their declared type,
\* the data section is N times the declared row size, and the staging buffer is
\* never written past its end, whatever types the source properties declare.
C5_DeclaredSizes ==
    (op = "ply" /\ issued # <<>>) =>
        /\ \A j \in DOMAIN loc.props :
               issued[1].lines[3 + j] \in
                   {"property " \o t \o " " \o loc.props[j].name : t \in {"uchar", "float"}}
        /\ \A k \in DOMAIN issued : issued[k].kind = "block" => declaredLayout(issued[k])
        /\ error # "RangeError"
        /\ (pc = "done" /\ sinkError = "none") =>
               SumSeq([k \in DOMAIN blocks(issued) |-> blocks(issued)[k].bytes])
                   = Cardinality(Passing)
                     * SumSeq([j \in DOMAIN loc.props |-> DataTypeSize(loc.props[j].type)])

\* the header's chunk properties, each with the result of pack() it holds, in
\* the order min xyz, max xyz, min scale, max scale, min rgb, max rgb
boundOrder ==
    << <<"min_x", "px.min">>, <<"min_y", "py.min">>, <<"min_z", "pz.min">>,
       <<"max_x", "px.max">>, <<"max_y", "py.max">>, <<"max_z", "pz.max">>,
       <<"min_scale_x", "sx.min">>, <<"min_scale_y", "sy.min">>, <<"min_scale_z", "sz.min">>,
       <<"max_scale_x", "sx.max">>, <<"max_scale_y", "sy.max">>, <<"max_scale_z", "sz.max">>,
       <<"min_r", "cr.min">>, <<"min_g", "cg.min">>, <<"min_b", "cb.min">>,
       <<"max_r", "cr.max">>, <<"max_g", "cg.max">>, <<"max_b", "cb.max">> >>

wordOrder == <<"position", "rotation", "scale", "color">>

\* the stores the layout asks for: header of H bytes, N survivors in C chunks,
\* K coefficients per channel, `sorted` the survivors in sorted order
layoutStores(H, N, C, K, sorted) ==
    {Store(0, H, "header", 0, <<0, 0>>, 0)}
    \cup {Store(H + 72 * c + 4 * (m - 1), 4, boundOrder[m][2], c, <<0, 0>>, 0) :
            c \in 0..(C - 1), m \in 1..18}
    \cup {Store(H + 72 * C + 16 * q + 4 * (m - 1), 4, wordOrder[m], q \div ChunkSize,
                srcOf(sorted[q + 1]), 0) : q \in 0..(N - 1), m \in 1..4}
    \cup {Store(H + 72 * C + 16 * N + 3 * K * q + k, 1, "sh", q \div ChunkSize,
                srcOf(sorted[q + 1]), k) : q \in 0..(N - 1), k \in 0..(3 * K - 1)}

\* the stores of b lie inside it, no two share a byte, and every byte is stored
tiles(b) ==
    /\ \A k \in DOMAIN b.fields : b.fields[k].at >= 0 /\ b.fields[k].at + b.fields[k].size <= b.bytes
    /\ \A k \in DOMAIN b.fields, l \in DOMAIN b.fields :
           k < l => \/ b.fields[k].at + b.fields[k].size <= b.fields[l].at
                    \/ b.fields[l].at + b.fields[l].size <= b.fields[k].at
    /\ SumSeq([k \in DOMAIN b.fields |-> b.fields[k].size]) = b.bytes

\* the layout of buffer b for N survivors in C chunks with K coefficients
laidOut(b, N, C, K) ==
    /\ b.kind = "compressed" /\ b.final
    /\ b.bytes = byteLength(b.lines) + 72 * C + 16 * N + 3 * K * N
    /\ \A m \in 1..18 : b.lines[4 + m] = "property float " \o boundOrder[m][1]
    /\ Range(b.fields) = layoutStores(byteLength(b.lines), N, C, K, loc.indices)
    /\ tiles(b)

\* C6: for N >= 1 survivors in C = ceil(N / ChunkSize) chunks with K coefficients
\* per channel, the buffer has header + 72C + 16N + 3KN bytes, the 18 bounds of
\* chunk c lie at header + 72c in the header's order, the p-th survivor in sorted
\* order has its four words at header + 72C + 16p and its coefficients at
\* header + 72C + 16N + 3Kp, every store lies inside the buffer, no two overlap,
\* every byte is stored, and the buffer reaches the writer in one final write.
C6_CompressedLayout ==
    (op = "compressed" /\ pc # "start" /\ Passing # {}) =>
        /\ Len(issued) = 1
        /\ laidOut(issued[1], Cardinality(Passing),
                   (Cardinality(Passing) + ChunkSize - 1) \div ChunkSize,
                   shBandCoeffs[outputSHBands(splats, serializeSettings) + 1])

\* a buffer of two chunks with coefficients was written, its survivors reordered
C6_Witness ==
    /\ op = "compressed" /\ pc = "done" /\ Len(written) = 1
    /\ Cardinality(Passing) > ChunkSize
    /\ shBandCoeffs[outputSHBands(splats, serializeSettings) + 1] = 3
    /\ \E a \in DOMAIN loc.indices, b \in DOMAIN loc.indices :
           a < b /\ Before(srcOf(loc.indices[b]), srcOf(loc.indices[a]))
    /\ C6_CompressedLayout

\* Math.max(0, Math.min(255, x)) on thousandths, as a whole byte; NaN gives 0
clamped(x) == IF x = NaN THEN 0 ELSE IF x < 0 THEN 0 ELSE IF x > 255000 THEN 255 ELSE x \div 1000

\* the eight byte fields of a record, clamped
clampedBytes(data) ==
    <<clamped(colorValue(data["f_dc_0"])), clamped(colorValue(data["f_dc_1"])),
      clamped(colorValue(data["f_dc_2"])), clamped(alphaValue(data["opacity"])),
      clamped(rotValue(data["rot_0"])), clamped(rotValue(data["rot_1"])),
      clamped(rotValue(data["rot_2"])), clamped(rotValue(data["rot_3"]))>>

\* record k of buffer b: at 32k, for gaussian (e, i), its byte fields clamped
recordOK(rec, k) ==
    /\ rec.at = 32 * k /\ rec.size = 32
    /\ \A j \in 1..8 : rec.bytes[j] \in 0..255
    /\ rec.bytes = clampedBytes(read(splatProps, serializeSettings, splats[rec.e], rec.i))

\* C7: for N >= 1 survivors serializeSplat writes one final buffer of 32N bytes;
\* record k is that of the k-th passing pair in collection order and ascending
\* index, and its eight byte fields hold values in 0..255 got by clamping.
C7_SplatRecords ==
    (op = "splat" /\ pc # "start" /\ Passing # {}) =>
        /\ Len(issued) = 1
        /\ issued[1].final
        /\ issued[1].bytes = 32 * Cardinality(Passing)
        /\ Lists([k \in DOMAIN issued[1].fields |-> <<issued[1].fields[k].e, issued[1].fields[k].i>>],
                 Passing)
        /\ \A k \in DOMAIN issued[1].fields : recordOK(issued[1].fields[k], k - 1)

\* a buffer was written with a byte clamped from above 255 and one from below 0
C7_Witness ==
    /\ op = "splat" /\ pc = "done" /\ Len(written) = 1
    /\ Cardinality(Passing) >= 2
    /\ \E k \in DOMAIN written[1].fields :
           LET data == read(splatProps, serializeSettings, splats[written[1].fields[k].e],
                            written[1].fields[k].i)
           IN  /\ rotValue(data["rot_0"]) > 255000 \/ rotValue(data["rot_3"]) > 255000
               /\ written[1].fields[k].bytes[5] = 255 \/ written[1].fields[k].bytes[8] = 255
    /\ \E k \in DOMAIN written[1].fields :
           /\ colorValue(read(splatProps, serializeSettings, splats[written[1].fields[k].e],
                              written[1].fields[k].i)["f_dc_1"]) < 0
           /\ written[1].fields[k].bytes[2] = 0

\* s is the start of t
IsPrefix(s, t) == Len(s) <= Len(t) /\ SubSeq(t, 1, Len(s)) = s

\* the rows of the blocks follow one another in collection order and ascending index
rowsAscend(r) == \A a \in DOMAIN r, b \in DOMAIN r : a < b => Before(r[a], r[b])

\* C8: in every driver at most one write is outstanding, a write is issued only
\* once every earlier one has completed, and the buffers reach the sink in the
\* order they were produced: for serializePly the header, then the row blocks in
\* row order, the partly filled block last.
C8_OneWriteAtATime ==
    /\ Len(inflight) <= 1
    /\ IsPrefix(written, issued)
    /\ sinkError = "none" => issued = written \o inflight
    /\ (op = "ply" /\ issued # <<>>) =>
           /\ issued[1].kind = "header"
           /\ \A k \in 2..Len(issued) : issued[k].kind = "block"
           /\ \A k \in 2..(Len(issued) - 1) : issued[k].bytes = plyBufBytes(loc.props)
           /\ rowsAscend(rowsOf(issued, loc.props[1].name))

\* serializePly has had its header, a full block and a last block accepted in turn
C8_Witness ==
    /\ op = "ply" /\ pc = "done"
    /\ Len(written) = 3
    /\ written[3].bytes < written[2].bytes
    /\ written = issued

\* C9: once the sink has failed a write the export issues no further write (the
\* failed one is not issued again), never completes successfully, and completes
\* with the very failure the sink reported.
C9_FailurePropagates ==
    /\ [](sinkError # "none" => pc # "done")
    /\ [](pc = "failed" => error = sinkError)
    /\ [][sinkError # "none" => issued' = issued]_vars

\* a write after the first one failed, and the export ended with that failure
C9_Witness ==
    /\ pc = "failed"
    /\ sinkError \in SinkErrors /\ error = sinkError
    /\ Len(issued) >= 2 /\ Len(written) = Len(issued) - 1

\* C10: when no gaussian passes the filter, serializePly, serializePlyCompressed
\* and serializeSplat return without an error and without any call to the sink.
C10_NothingToExport ==
    (op \in {"ply", "compressed", "splat"} /\ Passing = {}) =>
        /\ issued = <<>> /\ inflight = <<>> /\ written = <<>>
        /\ pc \in {"start", "done"}
        /\ error = "none"

\* an encoder returned from a call whose gaussians are all deleted
C10_Witness ==
    /\ op \in {"ply", "compressed", "splat"} /\ pc = "done"
    /\ Passing = {} /\ total(splats) >= 2
    /\ issued = <<>>

\* the settings with the three document-save options at their defaults
saveOptionsOff(settings) ==
    [settings EXCEPT !.keepStateData = FALSE, !.keepWorldTransform = FALSE, !.keepColorTint = FALSE]

\* C11: keepStateData, keepWorldTransform and keepColorTint do not reach
\* serializeSplat: the records it hands to the writer are those of the run on
\* the same input with the three options at their defaults.
C11_SaveOptionsIgnored ==
    (op = "splat" /\ issued # <<>>) =>
        issued[1].fields = splatRecords(newScratch, splats, saveOptionsOff(serializeSettings), 1, 1, <<>>)

\* the f_rest_ names a collection stores
storedSH(splat) == getVertexProperties(splat) \cap Range(shNames)

\* the collection stores f_rest_0 .. f_rest_{n-1} and no other f_rest_ name
contiguousSH(splat) ==
    storedSH(splat) = Range(SubSeq(shNames, 1, Cardinality(storedSH(splat))))

\* the band tier of n stored coefficients
tierOf(n) == IF n < 9 THEN 0 ELSE IF n < 24 THEN 1 ELSE IF n < 45 THEN 2 ELSE 3

\* the `property uchar f_rest_` lines of a header
shLines(lines) ==
    {k \in DOMAIN lines : lines[k] \in {"property uchar " \o shNames[j] : j \in DOMAIN shNames}}

\* C12: for a collection storing f_rest_0..f_rest_{n-1}, calcSHBands reports
\* band 0 for n < 9, 1 for 9 <= n < 24, 2 for 24 <= n < 45 and 3 for n = 45,
\* with 0, 3, 8 and 15 coefficients per channel; the compressed encoder run on
\* that collection alone with no band limit declares three times as many sh
\* properties.
C12_BandTiers ==
    (op = "compressed" /\ issued # <<>>) =>
        /\ \A e \in DOMAIN splats :
               contiguousSH(splats[e]) =>
                   /\ calcSHBands(getVertexProperties(splats[e]))
                          = tierOf(Cardinality(storedSH(splats[e])))
                   /\ shBandCoeffs[calcSHBands(getVertexProperties(splats[e])) + 1]
                          = <<0, 3, 8, 15>>[tierOf(Cardinality(storedSH(splats[e]))) + 1]
        /\ (/\ Len(splats) = 1 /\ serializeSettings.maxSHBands = Undefined
            /\ contiguousSH(splats[1])) =>
               Cardinality(shLines(issued[1].lines))
                   = 3 * <<0, 3, 8, 15>>[tierOf(Cardinality(storedSH(splats[1]))) + 1]

\* the band count of a collection as calcSHBands reports it, and its
\* coefficients per channel
bandCount(splat) == calcSHBands(getVertexProperties(splat))

ownCoeffs(splat) == <<0, 3, 8, 15>>[bandCount(splat) + 1]

\* min(maxSHBands, max band count over the input collections)
exportedBands ==
    Min(Default(serializeSettings.maxSHBands, 3),
        CHOOSE b \in 0..3 : /\ \E e \in DOMAIN splats : bandCount(splats[e]) = b
                            /\ \A e \in DOMAIN splats : bandCount(splats[e]) <= b)

exportedCoeffs == <<0, 3, 8, 15>>[exportedBands + 1]

\* coefficient d of channel c of a gaussian: its collection's f_rest_{c*S+d}, or 0
sourceCoeff(splat, i, c, d) ==
    IF d < ownCoeffs(splat) THEN getProp(splat, shNames[c * ownCoeffs(splat) + d + 1], i) ELSE 0

\* the byte exported for coefficient d of channel c of entry n of the output
exportedByte(n, c, d) ==
    shQuantize(SHRotation_apply(getMat(splats[loc.indices[n].splatIndex],
                                       serializeSettings.keepWorldTransform), d,
                                sourceCoeff(splats[loc.indices[n].splatIndex], loc.indices[n].i,
                                            c, d)))

\* C13: the compressed encoder exports min(maxSHBands, max band count over the
\* collections) bands, maxSHBands defaulting to 3; exported coefficient d of
\* channel c of a gaussian comes from its collection's f_rest_{c*S+d} when d is
\* below the collection's own count S and is zero otherwise.
C13_ExportedBands ==
    (op = "compressed" /\ issued # <<>>) =>
        /\ Cardinality(shLines(issued[1].lines)) = 3 * exportedCoeffs
        /\ \A n \in DOMAIN issued[1].sh :
               /\ Len(issued[1].sh[n]) = 3 * exportedCoeffs
               /\ \A c \in 0..2, d \in 0..(exportedCoeffs - 1) :
                      issued[1].sh[n][c * exportedCoeffs + d + 1] = exportedByte(n, c, d)

\* two collections with one and three bands were exported with two bands: the
\* first gaussian's missing coefficients are zero-filled (byte 128) and its
\* second channel differs from its first
C13_Witness ==
    /\ op = "compressed" /\ pc = "done" /\ Len(splats) = 2
    /\ exportedCoeffs = 8 /\ ownCoeffs(splats[1]) = 3 /\ ownCoeffs(splats[2]) = 15
    /\ Len(written) = 1 /\ Len(written[1].sh) = 2
    /\ written[1].sh[1][2] # 128 /\ written[1].sh[1][4] = 128
    /\ written[1].sh[1][9] # written[1].sh[1][1]
    /\ written[1].sh[2][4] # 128

\* clamp(round((value / 8 + 0.5) * 256), 0, 255) as a byte
roundedByte(value) == Max(0, Min(255000, round(shScaled(value)))) \div 1000

\* singleSplat.data for entry n of the output of the compressed encoder
dataOf(n) ==
    read(compressedMembers(shBandCoeffs[outputSHBands(splats, serializeSettings) + 1]),
         serializeSettings, splats[loc.indices[n].splatIndex], loc.indices[n].i)

\* C14: every sh byte of the compressed output is the coefficient's value
\* scaled by (value / 8 + 0.5) * 256, rounded to the nearest integer and then
\* clamped to 0..255.
C14_RoundedSH ==
    (op = "compressed" /\ issued # <<>>) =>
        \A n \in DOMAIN issued[1].sh : \A k \in DOMAIN issued[1].sh[n] :
            issued[1].sh[n][k] = roundedByte(dataOf(n)[shNames[k]])

\* the gaussians of chunk i (counted from 1) of the compressed output
realNum(i) == chunkNum(Len(loc.indices), i - 1)

\* the value of a member for slot j of chunk i: that of gaussian j of the
\* chunk, and past the last gaussian that of the last one
slotValue(i, j, name) == dataOf((i - 1) * ChunkSize + Min(j, realNum(i)))[name]

\* the values of a member over the gaussians of chunk i alone
realValues(i, name) == [j \in 1..realNum(i) |-> dataOf((i - 1) * ChunkSize + j)[name]]

realColors(i, name) == [j \in 1..realNum(i) |-> toColor(realValues(i, name)[j])]

\* the bounds over the gaussians of chunk i alone, log-scale bounds clamped to
\* [-20, 20] and colour bounds taken over the converted colours
realBounds(i) ==
    [px |-> calcMinMax(realValues(i, "x")),
     py |-> calcMinMax(realValues(i, "y")),
     pz |-> calcMinMax(realValues(i, "z")),
     sx |-> clampScale(calcMinMax(realValues(i, "scale_0"))),
     sy |-> clampScale(calcMinMax(realValues(i, "scale_1"))),
     sz |-> clampScale(calcMinMax(realValues(i, "scale_2"))),
     cr |-> calcMinMax(realColors(i, "f_dc_0")),
     cg |-> calcMinMax(realColors(i, "f_dc_1")),
     cb |-> calcMinMax(realColors(i, "f_dc_2"))]

\* C15: when Chunk.pack runs for a batch, every slot of the Chunk holds the
\* transformed values of a gaussian of that batch or, past the last one, a copy
\* of the batch's last gaussian (never zeros, never values left by an earlier
\* batch), and the bounds emitted for the batch are the bounds over its own
\* gaussians only (log-scale bounds clamped to [-20, 20]).
C15_PaddedChunk ==
    (op = "compressed" /\ issued # <<>>) =>
        \A i \in DOMAIN issued[1].chunks :
            /\ \A j \in 1..ChunkSize : \A name \in Range(Chunk_members) :
                   issued[1].chunks[i].slots[name][j] = slotValue(i, j, name)
            /\ issued[1].chunks[i].bounds = realBounds(i)

\* a short final batch follows a full one whose last slot was left with other
\* values, none of them zero for x, and the padding changed it
C15_Witness ==
    /\ op = "compressed" /\ pc = "done" /\ Len(written) = 1
    /\ Len(written[1].chunks) = 2
    /\ realNum(2) < ChunkSize
    /\ written[1].chunks[1].packed.data["x"][ChunkSize] # 0
    /\ written[1].chunks[2].slots["x"][ChunkSize] # 0
    /\ written[1].chunks[2].slots["x"][ChunkSize] # written[1].chunks[1].packed.data["x"][ChunkSize]
    /\ written[1].chunks[2].slots["f_dc_0"][ChunkSize] # written[1].chunks[1].packed.data["f_dc_0"][ChunkSize]
    /\ written[1].chunks[2].bounds.px.max < written[1].chunks[1].bounds.px.max

\* the fields of a 32-bit word packed 11/10/11: bits 21..31, 11..20 and 0..10
field111011(w) == <<w[1] \div 32, (w[1] % 32) * 32 + w[2] \div 2048, w[2] % 2048>>

\* the four bytes of a 32-bit word, from the top byte down
field8888(w) == <<w[1] \div 256, w[1] % 256, w[2] \div 256, w[2] % 256>>

\* round(t * (2^bits - 1)) clamped to 0 .. 2^bits - 1 for the normalised value
\* t of v in lo .. hi: 0 at or below lo (and when lo = hi), 1 at or above hi
unormOf(v, lo, hi, bits) ==
    IF v <= lo THEN 0
    ELSE IF v >= hi THEN 2 ^ bits - 1
    ELSE Max(0, Min(2 ^ bits - 1,
                    (2 * (v - lo) * (2 ^ bits - 1) + (hi - lo)) \div (2 * (hi - lo))))

\* the three fields expected for slot j of a chunk from three members and their bounds
expected111011(c, j, m1, m2, m3, b1, b2, b3) ==
    <<unormOf(c.slots[m1][j], b1.min, b1.max, 11),
      unormOf(c.slots[m2][j], b2.min, b2.max, 10),
      unormOf(c.slots[m3][j], b3.min, b3.max, 11)>>

\* the four bytes expected for slot j of a chunk: the colours against their
\* bounds, and sigmoid(opacity) (thousandths) against 0 .. 1
expected8888(c, j) ==
    <<unormOf(toColor(c.slots["f_dc_0"][j]), c.bounds.cr.min, c.bounds.cr.max, 8),
      unormOf(toColor(c.slots["f_dc_1"][j]), c.bounds.cg.min, c.bounds.cg.max, 8),
      unormOf(toColor(c.slots["f_dc_2"][j]), c.bounds.cb.min, c.bounds.cb.max, 8),
      (2 * sigmoid(c.slots["opacity"][j]) * 255 + 1000) \div 2000>>

\* C16: every packed word is built from non-overlapping fields that fit their
\* width: position and scale as x in bits 21..31, y in bits 11..20 and z in
\* bits 0..10, colour as r, g, b, alpha from the top byte down; every field is
\* round(t * (2^bits - 1)) of its normalised input, clamped to 0 .. 2^bits - 1,
\* also when the batch's min equals its max or the input lies outside
\* [min, max], so no field carries into its neighbour.
C16_PackedFields ==
    (op = "compressed" /\ issued # <<>>) =>
        \A i \in DOMAIN issued[1].chunks : \A j \in 1..ChunkSize :
            /\ field111011(issued[1].chunks[i].packed.position[j])
               = expected111011(issued[1].chunks[i], j, "x", "y", "z",
                                issued[1].chunks[i].bounds.px, issued[1].chunks[i].bounds.py,
                                issued[1].chunks[i].bounds.pz)
            /\ field111011(issued[1].chunks[i].packed.scale[j])
               = expected111011(issued[1].chunks[i], j, "scale_0", "scale_1", "scale_2",
                                issued[1].chunks[i].bounds.sx, issued[1].chunks[i].bounds.sy,
                                issued[1].chunks[i].bounds.sz)
            /\ field8888(issued[1].chunks[i].packed.color[j]) = expected8888(issued[1].chunks[i], j)
            /\ \A w \in {issued[1].chunks[i].packed.position[j], issued[1].chunks[i].packed.scale[j],
                         issued[1].chunks[i].packed.color[j]} :
                   w[1] \in 0..65535 /\ w[2] \in 0..65535

\* a batch was packed whose y bounds are equal, one of whose log-scales lies
\* above its clamped bound and another below, and one of whose position words
\* has the x and z fields full next to an empty y field
C16_Witness ==
    /\ op = "compressed" /\ pc = "done" /\ Len(written) = 1
    /\ \E i \in DOMAIN written[1].chunks :
           /\ written[1].chunks[i].bounds.py.min = written[1].chunks[i].bounds.py.max
           /\ written[1].chunks[i].bounds.px.min < written[1].chunks[i].bounds.px.max
           /\ \E j \in 1..ChunkSize :
                  /\ written[1].chunks[i].slots["scale_0"][j] > written[1].chunks[i].bounds.sx.max
                  /\ written[1].chunks[i].slots["scale_1"][j] < written[1].chunks[i].bounds.sy.min
                  /\ field111011(written[1].chunks[i].packed.scale[j])[1] = 2047
           /\ \E j \in 1..ChunkSize :
                  /\ field111011(written[1].chunks[i].packed.position[j]) = <<2047, 0, 2047>>
                  /\ field8888(written[1].chunks[i].packed.color[j])[1] = 255

\* the quaternion packRot was given for slot j of a chunk
rotOf(c, j) == <<c.slots["rot_0"][j], c.slots["rot_1"][j], c.slots["rot_2"][j], c.slots["rot_3"][j]>>

\* the component of greatest magnitude, the lowest index on ties (from 1)
greatest(qt) ==
    CHOOSE k \in 1..4 : /\ \A m \in 1..4 : abs(qt[m]) <= abs(qt[k])
                        /\ \A m \in 1..(k - 1) : abs(qt[m]) < abs(qt[k])

\* bits 30..31 and the three 10-bit fields below them
rotIndex(w) == w[1] \div 16384

rotFields(w) == <<(w[1] \div 16) % 1024, (w[1] % 16) * 64 + w[2] \div 1024, w[2] % 1024>>

\* the component a 10-bit field stands for, in ten-thousandths:
\* (f / 1023 - 0.5) * sqrt(2)
unpackField(f) == divRound((2 * f - 1023) * 7071, 1023)

\* the components other than k, in ascending order
others(k) == SelectSeq(<<1, 2, 3, 4>>, LAMBDA m : m # k)

\* the dropped component from the unit-norm constraint, non-negative
dropped(f) ==
    sqrt(Max(0, 100000000 - unpackField(f[1]) * unpackField(f[1])
                          - unpackField(f[2]) * unpackField(f[2])
                          - unpackField(f[3]) * unpackField(f[3])))

\* the quaternion decoded from a word, in ten-thousandths
unpackRot(w) ==
    [k \in 1..4 |->
        IF k = rotIndex(w) + 1 THEN dropped(rotFields(w))
        ELSE unpackField(rotFields(w)[CHOOSE n \in 1..3 : others(rotIndex(w) + 1)[n] = k])]

\* the normalised quaternion with the sign that makes its greatest component
\* non-negative, in ten-thousandths
signedUnit(qt) ==
    IF qt[greatest(qt)] < 0 THEN Quat_normalize([k \in 1..4 |-> 0 - qt[k]])
    ELSE Quat_normalize(qt)

\* C17: for a non-zero quaternion packRot stores in bits 30..31 the index of
\* the component of greatest magnitude (the lowest on ties), negates the
\* quaternion when that component is negative, and stores the other three
\* components in ascending index order as 10-bit fields; the decoded word is
\* the normalised quaternion up to that sign, every component within 1/1023
\* (10 ten-thousandths).
C17_PackedRotation ==
    (op = "compressed" /\ issued # <<>>) =>
        \A i \in DOMAIN issued[1].chunks : \A j \in 1..ChunkSize :
            rotOf(issued[1].chunks[i], j) # <<0, 0, 0, 0>> =>
                /\ rotIndex(issued[1].chunks[i].packed.rotation[j]) + 1
                   = greatest(rotOf(issued[1].chunks[i], j))
                /\ \A k \in 1..4 :
                       abs(unpackRot(issued[1].chunks[i].packed.rotation[j])[k]
                           - signedUnit(rotOf(issued[1].chunks[i], j))[k])
                       <= 10

\* two rotations were packed: one whose greatest component is negative and not
\* the first, one whose two greatest components tie
C17_Witness ==
    /\ op = "compressed" /\ pc = "done" /\ Len(written) = 1
    /\ \E i \in DOMAIN written[1].chunks : \E j1 \in 1..ChunkSize, j2 \in 1..ChunkSize :
           /\ greatest(rotOf(written[1].chunks[i], j1)) = 3
           /\ rotOf(written[1].chunks[i], j1)[3] < 0
           /\ rotOf(written[1].chunks[i], j1)[4] > 0
           /\ rotIndex(written[1].chunks[i].packed.rotation[j1]) = 2
           /\ rotFields(written[1].chunks[i].packed.rotation[j1])[3] < 511
           /\ \E k \in 2..4 : abs(rotOf(written[1].chunks[i], j2)[k])
                              = abs(rotOf(written[1].chunks[i], j2)[greatest(rotOf(written[1].chunks[i], j2))])
                              /\ k # greatest(rotOf(written[1].chunks[i], j2))

\* bit k of a non-negative integer
bitOf(v, k) == (v \div (2 ^ k)) % 2

\* the 30-bit interleave: bit k of ix at 3k, of iy at 3k + 1, of iz at 3k + 2
interleaved(code, ix, iy, iz) ==
    /\ code \in 0..(2 ^ 30 - 1)
    /\ \A k \in 0..9 : /\ bitOf(code, 3 * k) = bitOf(ix, k)
                       /\ bitOf(code, 3 * k + 1) = bitOf(iy, k)
                       /\ bitOf(code, 3 * k + 2) = bitOf(iz, k)

\* the cell coordinates sortSplats computes for a centre, within the box of
\* the centres of the gaussians that are not deleted
cellsOf(c, cs) ==
    <<cell(c[1], extent(cs, 1, 2, cs[1][1], cs[1][1])),
      cell(c[2], extent(cs, 2, 2, cs[1][2], cs[1][2])),
      cell(c[3], extent(cs, 3, 2, cs[1][3], cs[1][3]))>>

\* the cells of entry n of the output, from its own centre
ownCells(n) ==
    cellsOf(splats[loc.indices[n].splatIndex].centers[loc.indices[n].i], liveCenters(splats, 1, 1))

\* two cell triples equal on two axes, the first smaller on the third
smallerOnOneAxis(a, b) ==
    \E axis \in 1..3 : /\ Less(a[axis], b[axis])
                       /\ \A other \in 1..3 \ {axis} : a[other] = b[other]

\* C18: the cell coordinates of every gaussian lie in 0..1023, also at the
\* maximum of the box and when the box has no extent on an axis; encodeMorton3
\* of them is the 30-bit interleave with bit k of ix at 3k, of iy at 3k + 1 and
\* of iz at 3k + 2; of two surviving gaussians whose cells agree on two axes
\* the one with the smaller cell on the third comes first in the output.
C18_MortonCells ==
    (op = "compressed" /\ issued # <<>>) =>
        /\ \A n \in DOMAIN loc.indices :
               /\ \A axis \in 1..3 : ownCells(n)[axis] \in 0..1023
               /\ interleaved(encodeMorton3(ownCells(n)[1], ownCells(n)[2], ownCells(n)[3]),
                              ownCells(n)[1], ownCells(n)[2], ownCells(n)[3])
        /\ \A n1 \in DOMAIN loc.indices, n2 \in DOMAIN loc.indices :
               smallerOnOneAxis(ownCells(n1), ownCells(n2)) => n1 < n2

\* the objects the transform cache of collection e built for <<t, field>>
builtFor(e, t, field) ==
    {k \in DOMAIN loc.singleSplat.cacheMap[e].built :
        loc.singleSplat.cacheMap[e].built[k] = <<t, field>>}

\* the getter calls of the reads that returned field `field` of palette
\* index t of collection e
gotFor(e, t, field) ==
    {k \in DOMAIN loc.singleSplat.got :
        /\ loc.singleSplat.got[k].splat = e
        /\ loc.singleSplat.got[k].transformIndex = t
        /\ loc.singleSplat.got[k].field = field}

CacheFields == {"mat", "rot", "scale", "shRot"}

\* C19: within one export call, for each collection and each palette index
\* encountered (no index array counting as index 0), the matrix, the rotation,
\* the scale and the SH rotation are each constructed at most once, however
\* many gaussians are read and however the reads alternate between
\* collections; every read with the same index is given the object first
\* constructed.
C19_BuiltOnce ==
    (op = "compressed" /\ issued # <<>>) =>
        /\ \A k1 \in DOMAIN loc.singleSplat.made, k2 \in DOMAIN loc.singleSplat.made :
               loc.singleSplat.made[k1] = loc.singleSplat.made[k2] => k1 = k2
        /\ \A e \in DOMAIN loc.singleSplat.cacheMap, t \in PaletteIndices, field \in CacheFields :
               /\ Cardinality(builtFor(e, t, field)) <= 1
               /\ \A k \in gotFor(e, t, field) :
                      /\ builtFor(e, t, field) = {loc.singleSplat.got[k].object.id}
                      /\ loc.singleSplat.got[k].object
                         = loc.singleSplat.got[CHOOSE f \in gotFor(e, t, field) :
                                                   \A g \in gotFor(e, t, field) : f <= g].object
        /\ \A n \in DOMAIN loc.indices :
               gotFor(loc.indices[n].splatIndex,
                      transformIndexOf(splats[loc.indices[n].splatIndex], loc.indices[n].i),
                      "mat") # {}

\* two collections were read in alternation, the first with an index array and
\* the second without; the rotation of a palette index above 0 of the first
\* was returned twice with a read of the second in between, and its SH
\* rotation six times
C19_Witness ==
    /\ op = "compressed" /\ pc = "done" /\ Len(splats) = 2
    /\ "indices" \in DOMAIN splats[1]
    /\ "indices" \notin DOMAIN splats[2]
    /\ gotFor(2, 0, "mat") # {}
    /\ \E t \in PaletteIndices \ {0} :
           /\ \E k1 \in gotFor(1, t, "rot"), k2 \in gotFor(1, t, "rot") :
                  /\ k1 < k2
                  /\ \E k \in (k1 + 1)..(k2 - 1) : loc.singleSplat.got[k].splat = 2
           /\ Cardinality(gotFor(1, t, "shRot")) = 6
           /\ Cardinality(builtFor(1, t, "shRot")) = 1

\* the row blocks serializePly issues when it runs alone from row (e, i) with
\* an empty buffer
RECURSIVE aloneBlocks(_, _, _, _, _, _)

aloneAfter(ss, settings, props, r) ==
    CASE r.outcome = "flush" ->
            <<Buffer("block", plyBufBytes(props), FALSE, <<>>, r.fields)>>
            \o aloneBlocks(r.scratch, ss, settings, props, r.e, r.i)
      [] r.outcome = "end" /\ r.offset > 0 -> <<Buffer("block", r.offset, FALSE, <<>>, r.fields)>>
      [] OTHER -> <<>>

aloneBlocks(sc, ss, settings, props, e, i) ==
    aloneAfter(ss, settings, props, plyRows(sc, ss, settings, props, e, i, 0, <<>>))

alonePly(ss, settings) ==
    IF countGaussians(ss, settings) = 0 THEN <<>>
    ELSE <<Buffer("header",
                  byteLength(plyHeader(countGaussians(ss, settings), plyProps(ss, settings))),
                  FALSE, plyHeader(countGaussians(ss, settings), plyProps(ss, settings)), <<>>)>>
         \o aloneBlocks(newScratch, ss, settings, plyProps(ss, settings), 1, 1)

aloneSplat(ss, settings) ==
    IF countGaussians(ss, settings) = 0 THEN <<>>
    ELSE <<Buffer("splat", countGaussians(ss, settings) * 32, TRUE, <<>>,
                  splatRecords(newScratch, ss, settings, 1, 1, <<>>))>>

aloneCompressedOf(ss, settings, indices, coeffs) ==
    IF Len(indices) = 0 THEN <<>>
    ELSE <<withValues(compressedResult(ss, indices,
                          compressedHeader((Len(indices) + ChunkSize - 1) \div ChunkSize,
                                           Len(indices), coeffs),
                          coeffs),
                      compressedRun(newScratch, ss, settings, sortSplats(ss, indices), coeffs),
                      coeffs)>>

aloneCompressed(ss, settings) ==
    aloneCompressedOf(ss, settings, compressedIndices(ss, settings, 1, 1, <<>>),
                      shBandCoeffs[outputSHBands(ss, settings) + 1])

\* the buffers call c hands to its sink when no other call is in flight
alone(c) ==
    CASE c.op = "ply" -> alonePly(c.splats, c.serializeSettings)
      [] c.op = "splat" -> aloneSplat(c.splats, c.serializeSettings)
      [] c.op = "compressed" -> aloneCompressed(c.splats, c.serializeSettings)

\* call c has so far produced what it produces alone, and all of it once it is over
asAlone(c) ==
    /\ IsPrefix(c.issued, alone(c))
    /\ IsPrefix(c.written, c.issued)
    /\ c.pc = "done" => c.written = alone(c)

\* C20: when two export calls are in flight at once and interleave at their
\* sink-write suspension points, each hands its sink exactly the buffers, with
\* exactly the values, it hands over when it runs alone, whatever the other
\* call left in the module-level v and q.
C20_AsIfAlone == asAlone(running) /\ asAlone(peer)

\* serializePly is suspended after its first row block with rows to come, the
\* other call has since run its reads, and v and q hold what that call left
C20_Witness ==
    /\ op = "ply" /\ pc = "ply_block" /\ Len(issued) = 2
    /\ loc.totalGaussians > BlockRows
    /\ peer.op \in {"splat", "compressed"} /\ peer.issued # <<>>
    /\ scratch # plyRows(newScratch, splats, serializeSettings, loc.props, 1, 1, 0, <<>>).scratch

\* the names of the colour members: the base colour and the coefficients
colorNames == {"f_dc_0", "f_dc_1", "f_dc_2"} \cup Range(shNames)

\* singleSplat.data for the row a field belongs to, as the call read it
rowData(f) ==
    read([j \in DOMAIN plyProps(splats, serializeSettings) |->
             plyProps(splats, serializeSettings)[j].name],
         serializeSettings, splats[f.e], f.i)

\* the adjustment formula applied to the row of field f
adjusted(f) ==
    applyTint(rowData(f), tintOf(splats[f.e]),
              shBandCoeffs[calcSHBands({p.name : p \in Range(plyProps(splats, serializeSettings))}) + 1])

\* the colour fields of the row blocks issued so far
colorFields ==
    { f \in UNION { Range(issued[k].fields) : k \in { j \in DOMAIN issued : issued[j].kind = "block" } } :
        f.name \in colorNames }

\* C21: for a collection whose colour parameters are the ones SingleSplat.read
\* treats as untinted (white tint, temperature 0, saturation 1, brightness 1,
\* blackPoint 0, whitePoint 1), the value written with the adjustment skipped
\* is the value the adjustment formula gives: the formula maps every base
\* colour to itself.
C21_SkipIsIdentity ==
    \A f \in colorFields :
        ~hasTint(splats[f.e]) /\ ~serializeSettings.keepColorTint => f.value = adjusted(f)[f.name]

\* the kinds of the buffers handed to the sink so far, in order
issuedKinds == [k \in DOMAIN issued |-> issued[k].kind]

\* the compressed encoder has run all its reads: v and q hold what it left
encoderRan ==
    scratch = viewerScratch(newScratch, splats, serializeSettings,
                            compressedIndices(splats, serializeSettings, 1, 1, <<>>))

\* buffer b carries the compressed file: nothing at all when no gaussian
\* passes the filter, and what serializePlyCompressed builds otherwise
carriesScene(b, bytes) ==
    IF countGaussians(splats, serializeSettings) = 0
    THEN bytes = 0 /\ b.fields = <<>>
    ELSE /\ bytes = plyBuffer(splats, serializeSettings).bytes
         /\ bytes > 0
         /\ b.fields = plyBuffer(splats, serializeSettings).fields

\* the one write of the HTML path
htmlPackage ==
    /\ Len(issued) = 1
    /\ issued[1].kind = "html" /\ issued[1].final
    /\ \E bytes \in 0..issued[1].bytes :
          issued[1].bytes = 4 * ((bytes + 2) \div 3) /\ carriesScene(issued[1], bytes)
    /\ pc = "done" => written = issued

\* the writes of the archive path
zipPackage ==
    /\ IsPrefix(issuedKinds, <<"zip:index.html", "zip:index.css", "zip:index.js",
                               "zip:settings.json", "zip:scene.compressed.ply", "zip:close">>)
    /\ \A k \in DOMAIN issued : issued[k].final <=> k = 6
    /\ \A k \in DOMAIN issued : k # 5 => issued[k].fields = <<>>
    /\ Len(issued) >= 5 => carriesScene(issued[5], issued[5].bytes)
    /\ pc = "done" => Len(issued) = 6 /\ written = issued

\* C22: serializeViewer has run the compressed encoder to completion before
\* its first write to the outer sink, and it writes a package even when no
\* gaussian passes the filter: the HTML path makes exactly one write, a final
\* one; the archive path writes index.html, index.css, index.js, settings.json
\* and scene.compressed.ply in that order and then closes the archive; with no
\* survivor the compressed payload is empty.
C22_ViewerPackage ==
    (op = "viewer" /\ pc # "start") =>
        /\ issued # <<>>
        /\ encoderRan
        /\ options.type = "html" => htmlPackage
        /\ options.type # "html" => zipPackage

\* an archive was written and closed for a collection whose gaussians are all deleted
C22_Witness ==
    /\ op = "viewer" /\ options.type = "zip" /\ pc = "done"
    /\ \E e \in DOMAIN splats : numSplats(splats[e]) > 0
    /\ countGaussians(splats, serializeSettings) = 0
    /\ Len(written) = 6 /\ written[5].bytes = 0

====
